---- MODULE Spec2Model ----
(***************************************************************************)
(* Avatars SDK: the session lifecycle controller (AvatarVideoManager), the *)
(* section player (VideoManager), the session state (StateManager), the    *)
(* playback orchestrator (EventManager) and the voice agent wrapper        *)
(* (VoiceAgentManager), as one state machine.                              *)
(*                                                                         *)
(* JavaScript runs every handler to completion; a handler is suspended     *)
(* only at an await.  Each action below is one synchronous run: a public   *)
(* call up to its first await, a DOM or agent event with the listeners it  *)
(* fires, or the continuation of an await whose promise has settled.       *)
(* Objects made by the n-th accepted startCall carry the identity n; 0 is  *)
(* null.                                                                   *)
(***************************************************************************)
EXTENDS Integers, Sequences, FiniteSets, TLC

\* Number of startCall invocations that get past the isCallActive guard.
MaxAttempts == 2
\* The same, where playback is followed too.
MaxSessions == 1
\* Longest speaking / listening section list of an avatar profile.
MaxSections == 2
\* Number of AvatarVideoManager objects that getInstance() constructs.
MaxInstances == 2
\* Number of resetInstance() calls that are suspended at a time.
MaxResets == 2

Ids == 1..MaxAttempts
Refs == 0..MaxAttempts

VARIABLES
    \* AvatarVideoManager.instance (0: null; the fields below are those of
    \* the first object made, 1), how many objects were made, and the
    \* resetInstance() calls suspended at "await this.instance.endCall()":
    \* how many wait for a teardown, how many have their promise settled,
    \* and on which object each of them called endCall()
    instance, made, resetting,
    \* AvatarVideoManager fields
    isInitialized, isInitializing, isCallActive, isCleaningUp,
    cleanupPromise, abortController, videoManager, stateManager,
    eventManager, avatarConfig, listeners,
    \* whether remoteAudioStream / localAudioStream hold a stream, and how
    \* often the controller's two stream handlers are registered on each agent
    remoteAudioStream, localAudioStream, mediaSubs,
    \* VoiceAgentManager fields and the HamsaVoiceAgent objects it made
    voiceAgent, agentStarted, agent, agentSubs,
    \* startCall invocations: where each is suspended and on what
    pc, settled, params, player, nextId,
    \* the endCall whose teardown is suspended at "await endAgent()"
    teardown,
    \* VideoManager, StateManager and EventManager objects, the container
    vm, container, sm, em,
    \* observation: the last step and what it emitted and commanded, in
    \* order; the invocations an endCall has aborted and that still run, and
    \* those of them whose awaited promise had not settled at the abort;
    \* how many onLoadingChange(true) no onLoadingChange(false) has followed
    did, out, aborted, undecided, loading

vars == <<isInitialized, isInitializing, isCallActive, isCleaningUp,
          cleanupPromise, abortController, videoManager, stateManager,
          eventManager, avatarConfig, listeners, voiceAgent, agentStarted,
          agent, agentSubs, pc, settled, params, player, nextId, teardown, vm,
          container, sm, em, did, out, aborted, undecided,
          remoteAudioStream, localAudioStream, mediaSubs,
          instance, made, resetting, loading>>

----------------------------------------------------------------------------
\* Data: Types.ts and avatarsData.ts

SectionTypes == {"speaking", "listening"}

NoSection == [type |-> "none", index |-> -1]

NoRange == [start |-> -1, end |-> -1]

NoConfig == [speakingSections |-> <<NoRange>>, listeningSections |-> <<NoRange>>, videoPath |-> "none"]

\* An avatar name: a key of the table, possibly written in upper case.
NoName == [key |-> <<-1, -1>>, upper |-> FALSE]

\* One table entry: ns speaking ranges followed by nl listening ranges,
\* laid out back to back over the video, each 10 seconds long.
MakeConfig(ns, nl) ==
    [speakingSections |-> [i \in 1..ns |-> [start |-> (i - 1) * 10, end |-> i * 10]],
     listeningSections |-> [i \in 1..nl |-> [start |-> (ns + i - 1) * 10, end |-> (ns + i) * 10]],
     videoPath |-> "video"]

\* The table of the model: every split of MaxSections ranges between the
\* two lists, so that each list takes every length 0..MaxSections.
TableKeys == {<<n, MaxSections - n>> : n \in 0..MaxSections}

UnknownKey == <<MaxSections + 1, MaxSections + 1>>

AvatarNames == [key : TableKeys \cup {UnknownKey}, upper : BOOLEAN]

ToLowerCase(name) == [name EXCEPT !.upper = FALSE]

\* avatarsSDKData[k]: the table holds lower-case keys only; a miss is undefined.
avatarsSDKData(name) ==
    IF name.key \in TableKeys /\ ~name.upper
    THEN MakeConfig(name.key[1], name.key[2])
    ELSE NoConfig

SectionsOf(cfg, type) ==
    IF type = "speaking" THEN cfg.speakingSections ELSE cfg.listeningSections

----------------------------------------------------------------------------
\* The whole program state as one record, so that a handler is a function
\* from state to state and calls compose.  "threw" is the exception flag of
\* the call being evaluated; it is no part of the state.

World ==
    [isInitialized |-> isInitialized, isInitializing |-> isInitializing,
     isCallActive |-> isCallActive, isCleaningUp |-> isCleaningUp,
     cleanupPromise |-> cleanupPromise, abortController |-> abortController,
     videoManager |-> videoManager, stateManager |-> stateManager,
     eventManager |-> eventManager, avatarConfig |-> avatarConfig,
     listeners |-> listeners, voiceAgent |-> voiceAgent,
     agentStarted |-> agentStarted, agent |-> agent, agentSubs |-> agentSubs,
     pc |-> pc, settled |-> settled, params |-> params, player |-> player,
     nextId |-> nextId,
     teardown |-> teardown, vm |-> vm, container |-> container, sm |-> sm,
     em |-> em, out |-> <<>>, aborted |-> aborted, undecided |-> undecided,
     remoteAudioStream |-> remoteAudioStream, localAudioStream |-> localAudioStream,
     mediaSubs |-> mediaSubs, instance |-> instance, made |-> made,
     resetting |-> resetting, loading |-> loading, threw |-> FALSE]

\* held is an observation, kept where pause() is observed: the controller's
\* pause() has paused this player and its resume() has not resumed it since
BlankVideo ==
    [made |-> FALSE, currentSection |-> NoRange, armed |-> FALSE,
     playing |-> FALSE, atEnd |-> FALSE, subs |-> <<>>, held |-> FALSE]

BlankState == [agentStatus |-> "idle", currentSection |-> NoSection]

\* played and steady are observations: the range this event manager played
\* last, and whether the status it reads has stayed the same since
BlankEvents ==
    [made |-> FALSE, videoManager |-> 0, stateManager |-> 0,
     avatarConfig |-> NoConfig, currentSection |-> NoSection,
     played |-> NoRange, steady |-> FALSE]

\* Objects nothing refers to any more are garbage; they are returned to
\* their blank value.  A video element stays alive through the controller,
\* its abort signal, the container, a pending load or an event manager;
\* an event manager through the controller or a subscription.
Range(seq) == {seq[i] : i \in DOMAIN seq}

LiveEMs(w) ==
    {w.eventManager} \cup UNION {Range(w.agentSubs[g]) : g \in Ids}
                     \cup UNION {Range(w.vm[v].subs) : v \in Ids}

LiveVMs(w) ==
    {w.videoManager, w.abortController, w.container}
        \cup {w.player[a] : a \in Ids}
        \cup {w.em[e].videoManager : e \in LiveEMs(w) \ {0}}

LiveSMs(w) ==
    {w.stateManager} \cup {w.em[e].stateManager : e \in LiveEMs(w) \ {0}}

Collect(w) ==
    LET ems == LiveEMs(w)
        vms == LiveVMs(w)
        sms == LiveSMs(w)
    IN  [w EXCEPT !.vm = [v \in Ids |-> IF v \in vms THEN @[v] ELSE BlankVideo],
                  !.sm = [x \in Ids |-> IF x \in sms THEN @[x] ELSE BlankState],
                  !.em = [e \in Ids |-> IF e \in ems THEN @[e] ELSE BlankEvents],
                  !.aborted = [a \in Ids |-> @[a] /\ w.pc[a] \notin {"unused", "done"}],
                  !.undecided = [a \in Ids |-> @[a] /\ w.pc[a] \notin {"unused", "done"}]]

Commit(w) ==
    /\ isInitialized' = w.isInitialized
    /\ isInitializing' = w.isInitializing
    /\ isCallActive' = w.isCallActive
    /\ isCleaningUp' = w.isCleaningUp
    /\ cleanupPromise' = w.cleanupPromise
    /\ abortController' = w.abortController
    /\ videoManager' = w.videoManager
    /\ stateManager' = w.stateManager
    /\ eventManager' = w.eventManager
    /\ avatarConfig' = w.avatarConfig
    /\ listeners' = w.listeners
    /\ voiceAgent' = w.voiceAgent
    /\ agentStarted' = w.agentStarted
    /\ agent' = w.agent
    /\ agentSubs' = w.agentSubs
    /\ pc' = w.pc
    /\ settled' = w.settled
    /\ params' = w.params
    /\ player' = w.player
    /\ nextId' = w.nextId
    /\ teardown' = w.teardown
    /\ vm' = w.vm
    /\ container' = w.container
    /\ sm' = w.sm
    /\ em' = w.em
    /\ out' = w.out
    /\ aborted' = w.aborted
    /\ undecided' = w.undecided
    /\ remoteAudioStream' = w.remoteAudioStream
    /\ localAudioStream' = w.localAudioStream
    /\ mediaSubs' = w.mediaSubs
    /\ instance' = w.instance
    /\ made' = w.made
    /\ resetting' = w.resetting
    /\ loading' = w.loading

SetWorld(w) == Commit(Collect(w))

\* An entry of out: op on object id, issued by event manager "by" (0: by
\* the controller or the player itself); a playRange has its range and the
\* range it cut short, if one was still playing; a lookup has the name
Ev(op, id) ==
    [op |-> op, id |-> id, range |-> NoRange, by |-> 0, cut |-> NoRange, name |-> NoName]

Did(op, id) == [op |-> op, id |-> id]

By(w, e) == [w EXCEPT !.out[Len(w.out)].by = e]

\* EventEmitter.emit on the controller; onAgentStart and onAgentEnd are
\* registered with once(), so the first emit removes them
Emit(w, op) ==
    [w EXCEPT !.out = Append(@, Ev(op, 0)),
              !.loading = CASE op = "onLoadingChange(true)" -> @ + 1
                            [] op = "onLoadingChange(false)" /\ @ > 0 -> @ - 1
                            [] OTHER -> @,
              !.listeners.onAgentStart = IF op = "onAgentStart" THEN FALSE ELSE @,
              !.listeners.onAgentEnd = IF op = "onAgentEnd" THEN FALSE ELSE @]

Cmd(w, op, id) == [w EXCEPT !.out = Append(@, Ev(op, id))]

Throw(w) == [w EXCEPT !.threw = TRUE]

\* the promise that startCall invocation a returned is fulfilled: the
\* function returns, or its catch block has caught what was thrown
Fulfil(w, a) == Cmd(w, "startCallFulfilled", a)

----------------------------------------------------------------------------
\* VideoManager (the section player).  atEnd abstracts the playback
\* position: videoElement.currentTime >= currentSection.end.

NewVideo == [BlankVideo EXCEPT !.made = TRUE]

\* the value of container when document.getElementById finds no element
NoContainer == -1

\* constructor: the container is emptied and receives the new video element
\* an element taken out of the document is paused by the browser
Detach(w) ==
    IF w.container \in {0, NoContainer} THEN w
    ELSE [w EXCEPT !.vm[w.container].playing = FALSE, !.container = 0]

\* without a container the element is made and appended nowhere
VideoManagerNew(w, v) ==
    IF w.container = NoContainer THEN Cmd([w EXCEPT !.vm[v] = NewVideo], "newPlayer", v)
    ELSE Cmd([Detach(w) EXCEPT !.vm[v] = NewVideo, !.container = v], "newPlayer", v)

\* Variant of playSection that does not seek to section.start: the
\* position stays where the previous range left it
playSectionNoSeek(w, v, section) ==
    [w EXCEPT !.vm[v].currentSection = section,
              !.vm[v].playing = TRUE,
              !.vm[v].armed = TRUE,
              !.out = Append(@, [Ev("playRange", v) EXCEPT
                                    !.range = section,
                                    !.cut = IF w.vm[v].playing /\ w.vm[v].armed /\ ~w.vm[v].atEnd
                                            THEN w.vm[v].currentSection ELSE NoRange])]

\* playSection: seek to section.start, play, re-attach the timeupdate listener
playSection(w, v, section) ==
    [w EXCEPT !.vm[v].currentSection = section,
              !.vm[v].atEnd = FALSE,
              !.vm[v].playing = TRUE,
              !.vm[v].armed = TRUE,
              !.out = Append(@, [Ev("playRange", v) EXCEPT
                                    !.range = section,
                                    !.cut = IF w.vm[v].playing /\ w.vm[v].armed /\ ~w.vm[v].atEnd
                                            THEN w.vm[v].currentSection ELSE NoRange])]

VideoPause(w, v) == Cmd([w EXCEPT !.vm[v].playing = FALSE], "pause", v)

VideoResume(w, v) == Cmd([w EXCEPT !.vm[v].playing = TRUE], "resume", v)

\* cleanup: only when the container still holds this element is the
\* timeupdate listener removed and the container emptied
VideoCleanup(w, v) ==
    Cmd(IF w.container = v
        THEN [Detach(w) EXCEPT !.vm[v].armed = FALSE]
        ELSE w,
        "dispose", v)

\* handleTimeUpdate once currentTime >= currentSection.end: pause, remove
\* the listener, emit sectionEnded (the listeners are run by the caller)
handleTimeUpdate(w, v) ==
    [w EXCEPT !.vm[v].playing = FALSE, !.vm[v].armed = FALSE]

----------------------------------------------------------------------------
\* StateManager (the session state)

NewState == BlankState

----------------------------------------------------------------------------
\* EventManager (the playback orchestrator).  A handler that dereferences a
\* null collaborator throws: what it did before stays, the rest is skipped.

RemoveOne(seq, x) == SelectSeq(seq, LAMBDA y : y # x)

\* this.videoManager.playSection(section) of event manager e
EMPlay(w, e, section) ==
    [By(playSection(w, w.em[e].videoManager, section), e)
        EXCEPT !.em[e].played = section, !.em[e].steady = TRUE]

\* logger.info of the event manager
Log(w, e, msg) == By(Cmd(w, msg, e), e)

EMPause(w, e) ==
    IF w.em[e].videoManager = 0 THEN Throw(w)
    ELSE By(VideoPause(w, w.em[e].videoManager), e)

\* Variant of RandomIndex with Math.ceil in the place of Math.floor
RandomIndexCeil(draw, length) == (draw % length) + 1

\* Variant of RandomIndex with Math.round in the place of Math.floor: the
\* upper half of the last position's draws rounds up to length
RandomIndexRound(draw, length) == IF draw = length - 1 THEN length ELSE draw % length

\* Variant of RandomIndex that always takes the first position
RandomIndexFirst(draw, length) == 0

\* Math.floor(Math.random() * length): any position of the list
RandomIndex(draw, length) == draw % length

\* Variant of selectAndPlaySection that records the selection before it
\* looks at the length of the list
selectAndPlaySectionEager(w, e, type, draw) ==
    IF w.em[e].avatarConfig = NoConfig THEN Throw(w)
    ELSE LET sections == SectionsOf(w.em[e].avatarConfig, type)
             randomIndex == IF Len(sections) = 0 THEN 0 ELSE RandomIndex(draw, Len(sections))
             cur == [type |-> type, index |-> randomIndex]
             w1 == [w EXCEPT !.em[e].currentSection = cur]
         IN  IF w.em[e].stateManager = 0 THEN Throw(w1)
             ELSE LET w2 == [w1 EXCEPT !.sm[w.em[e].stateManager].currentSection = cur] IN
                  IF Len(sections) = 0 THEN EMPause(w2, e)
                  ELSE IF w.em[e].videoManager = 0 THEN Throw(w2)
                  ELSE EMPlay(w2, e, sections[randomIndex + 1])

\* Variant of selectAndPlaySection that records the position after the one
\* it plays
selectAndPlaySectionRecordsNext(w, e, type, draw) ==
    IF w.em[e].avatarConfig = NoConfig THEN Throw(w)
    ELSE LET sections == SectionsOf(w.em[e].avatarConfig, type) IN
         IF Len(sections) = 0 THEN EMPause(w, e)
         ELSE LET randomIndex == RandomIndex(draw, Len(sections))
                  cur == [type |-> type, index |-> randomIndex + 1]
                  w1 == [w EXCEPT !.em[e].currentSection = cur]
              IN  IF w.em[e].stateManager = 0 THEN Throw(w1)
                  ELSE LET w2 == [w1 EXCEPT !.sm[w.em[e].stateManager].currentSection = cur] IN
                       IF randomIndex + 1 \notin DOMAIN sections THEN w2
                       ELSE IF w.em[e].videoManager = 0 THEN Throw(w2)
                       ELSE EMPlay(w2, e, sections[randomIndex + 1])

\* selectAndPlaySection(type); draw is the value of Math.random(), scaled
selectAndPlaySection(w, e, type, draw) ==
    IF w.em[e].avatarConfig = NoConfig THEN Throw(w)
    ELSE LET sections == SectionsOf(w.em[e].avatarConfig, type) IN
         IF Len(sections) = 0 THEN EMPause(w, e)
         ELSE LET randomIndex == RandomIndex(draw, Len(sections))
                  cur == [type |-> type, index |-> randomIndex]
                  w1 == [w EXCEPT !.em[e].currentSection = cur]
              IN  IF w.em[e].stateManager = 0 THEN Throw(w1)
                  ELSE LET w2 == [w1 EXCEPT !.sm[w.em[e].stateManager].currentSection = cur] IN
                       IF randomIndex + 1 \notin DOMAIN sections THEN w2
                       ELSE IF w.em[e].videoManager = 0 THEN Throw(w2)
                       ELSE EMPlay(w2, e, sections[randomIndex + 1])

setAgentStatus(w, s, status) ==
    [w EXCEPT !.sm[s].agentStatus = status,
              !.em = [e \in Ids |->
                         [@[e] EXCEPT !.steady = @ /\ (w.em[e].stateManager = s
                                                        => w.sm[s].agentStatus = status)]]]

\* handleSpeaking / handleListening / handleCallStarted
handleStatus(w, e, status, draw) ==
    IF w.em[e].stateManager = 0 THEN Throw(w)
    ELSE selectAndPlaySection(setAgentStatus(w, w.em[e].stateManager, status), e, status, draw)

\* Variant of handleCallEnded / handleError that also forgets the selected
\* section
handleIdleForgets(w, e) ==
    IF w.em[e].stateManager = 0 THEN Throw(w)
    ELSE EMPause([setAgentStatus(w, w.em[e].stateManager, "idle")
                     EXCEPT !.em[e].currentSection = NoSection,
                            !.sm[w.em[e].stateManager].currentSection = NoSection], e)

\* handleCallEnded / handleError
handleIdle(w, e) ==
    IF w.em[e].stateManager = 0 THEN Throw(w)
    ELSE EMPause(setAgentStatus(w, w.em[e].stateManager, "idle"), e)

\* Variant of handleSectionEnded whose loop replays the first section of the
\* list, whichever was selected
handleSectionEndedFirst(w, e, draw) ==
    LET cur == w.em[e].currentSection IN
    IF cur = NoSection THEN w
    ELSE IF w.em[e].stateManager = 0 THEN Throw(w)
    ELSE LET currentStatus == w.sm[w.em[e].stateManager].agentStatus IN
         IF currentStatus = cur.type
         THEN IF w.em[e].avatarConfig = NoConfig \/ w.em[e].videoManager = 0 THEN Throw(w)
              ELSE EMPlay(w, e, SectionsOf(w.em[e].avatarConfig, cur.type)[1])
         ELSE IF currentStatus = "idle" THEN EMPause(w, e)
              ELSE selectAndPlaySection(w, e, currentStatus, draw)

\* Variant of handleSectionEnded that selects anew whenever a range ends
handleSectionEndedReselect(w, e, draw) ==
    LET cur == w.em[e].currentSection IN
    IF cur = NoSection THEN w
    ELSE IF w.em[e].stateManager = 0 THEN Throw(w)
    ELSE LET currentStatus == w.sm[w.em[e].stateManager].agentStatus IN
         IF currentStatus = "idle" THEN EMPause(w, e)
         ELSE selectAndPlaySection(w, e, currentStatus, draw)

\* Variant of handleSectionEnded without the test of currentSection: with
\* no section selected it goes by the status alone
handleSectionEndedNoGuard(w, e, draw) ==
    IF w.em[e].stateManager = 0 THEN Throw(w)
    ELSE LET cur == w.em[e].currentSection
             currentStatus == w.sm[w.em[e].stateManager].agentStatus
         IN  IF currentStatus = cur.type
             THEN LET w1 == Log(w, e, "Looping the same section") IN
                  IF w.em[e].avatarConfig = NoConfig THEN Throw(w1)
                  ELSE LET sections == SectionsOf(w.em[e].avatarConfig, cur.type) IN
                       IF cur.index + 1 \in DOMAIN sections
                       THEN IF w.em[e].videoManager = 0 THEN Throw(w1)
                            ELSE EMPlay(w1, e, sections[cur.index + 1])
                       ELSE EMPause(w1, e)
             ELSE LET w1 == Log(w, e, "Selecting a new section") IN
                  IF currentStatus = "idle" THEN EMPause(w1, e)
                  ELSE selectAndPlaySection(w1, e, currentStatus, draw)

\* Variant of handleSectionEnded that, when the status has changed to
\* speaking or listening, selects anew from the list of the section that
\* has just ended
handleSectionEndedSameType(w, e, draw) ==
    LET cur == w.em[e].currentSection IN
    IF cur = NoSection THEN w
    ELSE IF w.em[e].stateManager = 0 THEN Throw(w)
    ELSE LET currentStatus == w.sm[w.em[e].stateManager].agentStatus IN
         IF currentStatus = cur.type
         THEN LET w1 == Log(w, e, "Looping the same section") IN
              IF w.em[e].avatarConfig = NoConfig THEN Throw(w1)
              ELSE LET sections == SectionsOf(w.em[e].avatarConfig, cur.type) IN
                   IF cur.index + 1 \in DOMAIN sections
                   THEN IF w.em[e].videoManager = 0 THEN Throw(w1)
                        ELSE EMPlay(w1, e, sections[cur.index + 1])
                   ELSE EMPause(w1, e)
         ELSE LET w1 == Log(w, e, "Selecting a new section") IN
              IF currentStatus = "idle" THEN EMPause(w1, e)
              ELSE selectAndPlaySection(w1, e, cur.type, draw)

\* Variant of handleSectionEnded that, when the status differs from the
\* type of the selected section, sets the status back to that type
handleSectionEndedSetsStatus(w, e, draw) ==
    LET cur == w.em[e].currentSection IN
    IF cur = NoSection THEN w
    ELSE IF w.em[e].stateManager = 0 THEN Throw(w)
    ELSE LET currentStatus == w.sm[w.em[e].stateManager].agentStatus
             w0 == IF currentStatus = cur.type THEN w
                   ELSE setAgentStatus(w, w.em[e].stateManager, cur.type)
             w1 == Log(w0, e, "Looping the same section")
         IN  IF w.em[e].avatarConfig = NoConfig THEN Throw(w1)
             ELSE LET sections == SectionsOf(w.em[e].avatarConfig, cur.type) IN
                  IF cur.index + 1 \in DOMAIN sections
                  THEN IF w.em[e].videoManager = 0 THEN Throw(w1)
                       ELSE EMPlay(w1, e, sections[cur.index + 1])
                  ELSE EMPause(w1, e)

handleSectionEnded(w, e, draw) ==
    LET cur == w.em[e].currentSection IN
    IF cur = NoSection THEN w
    ELSE IF w.em[e].stateManager = 0 THEN Throw(w)
    ELSE LET currentStatus == w.sm[w.em[e].stateManager].agentStatus IN
         IF currentStatus = cur.type
         THEN LET w1 == Log(w, e, "Looping the same section") IN
              IF w.em[e].avatarConfig = NoConfig THEN Throw(w1)
              ELSE LET sections == SectionsOf(w.em[e].avatarConfig, cur.type) IN
                   IF cur.index + 1 \in DOMAIN sections
                   THEN IF w.em[e].videoManager = 0 THEN Throw(w1)
                        ELSE EMPlay(w1, e, sections[cur.index + 1])
                   ELSE EMPause(w1, e)
         ELSE LET w1 == Log(w, e, "Selecting a new section") IN
              IF currentStatus = "idle" THEN EMPause(w1, e)
              ELSE selectAndPlaySection(w1, e, currentStatus, draw)

AgentEvents == {"speaking", "listening", "callStarted", "callEnded", "error"}

\* Variant of handleAgentEvent whose handleSpeaking records the status and
\* leaves the playback to the end of the range
handleAgentEventDeferred(w, e, ev, draw) ==
    CASE ev = "speaking" ->
            IF w.em[e].stateManager = 0 THEN Throw(w)
            ELSE setAgentStatus(w, w.em[e].stateManager, "speaking")
      [] ev = "listening" -> handleStatus(w, e, "listening", draw)
      [] ev = "callStarted" -> handleStatus(w, e, "listening", draw)
      [] OTHER -> handleIdle(w, e)

handleAgentEvent(w, e, ev, draw) ==
    CASE ev = "speaking" -> handleStatus(w, e, "speaking", draw)
      [] ev = "listening" -> handleStatus(w, e, "listening", draw)
      [] ev = "callStarted" -> handleStatus(w, e, "listening", draw)
      [] OTHER -> handleIdle(w, e)

\* EventEmitter.emit: the listeners run in the order they were added; a
\* listener that throws ends the emit
RECURSIVE EmitAgentEvent(_, _, _, _)
EmitAgentEvent(w, subs, ev, draw) ==
    IF subs = <<>> THEN w
    ELSE LET w1 == handleAgentEvent(w, Head(subs), ev, draw[Head(subs)]) IN
         IF w1.threw THEN w1 ELSE EmitAgentEvent(w1, Tail(subs), ev, draw)

RECURSIVE EmitSectionEnded(_, _, _)
EmitSectionEnded(w, subs, draw) ==
    IF subs = <<>> THEN w
    ELSE LET w1 == handleSectionEnded(w, Head(subs), draw[Head(subs)]) IN
         IF w1.threw THEN w1 ELSE EmitSectionEnded(w1, Tail(subs), draw)

\* Variant of onTimeUpdate that runs the sectionEnded listeners before it
\* pauses the element and removes the timeupdate listener
onTimeUpdateEmitsFirst(w, v, draw) ==
    LET w1 == EmitSectionEnded(w, w.vm[v].subs, draw) IN
    IF w1.threw THEN w1 ELSE handleTimeUpdate(w1, v)

\* the timeupdate listener of player v once the position is at the end of
\* its range: handleTimeUpdate, whose emit runs the sectionEnded listeners
onTimeUpdate(w, v, draw) == EmitSectionEnded(handleTimeUpdate(w, v), w.vm[v].subs, draw)

\* VoiceAgentManager.on / off forward to the current voiceAgent, if any
subscribeToEvents(w, e) ==
    LET w1 == IF w.voiceAgent = 0 THEN w
              ELSE [w EXCEPT !.agentSubs[w.voiceAgent] = Append(@, e)]
    IN  IF w.em[e].videoManager = 0 THEN Throw(w1)
        ELSE Cmd([w1 EXCEPT !.vm[w.em[e].videoManager].subs = Append(@, e)], "subscribe", e)

EventManagerCleanup(w, e) ==
    LET w1 == IF w.voiceAgent = 0 THEN w
              ELSE [w EXCEPT !.agentSubs[w.voiceAgent] = RemoveOne(@, e)]
    IN  IF w.em[e].videoManager = 0 THEN Throw(w1)
        ELSE Cmd([w1 EXCEPT !.vm[w.em[e].videoManager].subs = RemoveOne(@, e)], "unsubscribe", e)

----------------------------------------------------------------------------
\* VoiceAgentManager

\* startAgent up to "await this.voiceAgent.start()"
startAgent(w, a) ==
    IF w.agentStarted THEN [w EXCEPT !.settled[a] = "ok"]
    ELSE Cmd([w EXCEPT !.voiceAgent = a, !.agent[a] = "starting", !.settled[a] = "pending"],
             "agentStart", a)

\* startAgent after voiceAgent.start() settled; a failure is logged and
\* swallowed, so the promise startCall awaits resolves either way
startAgentResume(w, a, ok) ==
    LET w1 == [w EXCEPT !.agentStarted = ok,
                        !.agent[a] = IF @ = "starting"
                                     THEN (IF ok THEN "started" ELSE "failed")
                                     ELSE @,
                        !.settled[a] = "ok"]
    IN  IF ok THEN Cmd(w1, "paramsOnAgentStart", a) ELSE w1

endAgent(w) ==
    IF ~w.agentStarted \/ w.voiceAgent = 0 THEN w
    ELSE Cmd([w EXCEPT !.agent[w.voiceAgent] = "ended", !.agentStarted = FALSE],
             "agentEnd", w.voiceAgent)

AgentForward(w, op) == IF w.voiceAgent = 0 THEN w ELSE Cmd(w, op, w.voiceAgent)

----------------------------------------------------------------------------
\* AvatarVideoManager (the lifecycle controller)

\* a startCall invocation that is suspended at one of its awaits
InFlight(w, a) == w.pc[a] \in {"awaitCleanup", "load", "prefetch", "agent"}

NoListeners == [id |-> 0, onAgentStart |-> FALSE, onAgentEnd |-> FALSE]

\* subscribeToMediaStreams: the two stream handlers are added to the
\* current agent, if there is one; a handler added twice is held twice
subscribeToMediaStreams(w) ==
    IF w.voiceAgent = 0 THEN w ELSE [w EXCEPT !.mediaSubs[w.voiceAgent] = @ + 1]

\* voiceAgentManager.off of the two stream handlers: one registration of
\* each is removed from the current agent
unsubscribeFromMediaStreams(w) ==
    IF w.voiceAgent = 0 \/ w.mediaSubs[w.voiceAgent] = 0 THEN w
    ELSE [w EXCEPT !.mediaSubs[w.voiceAgent] = @ - 1]

\* handleRemoteAudioStream / handleLocalAudioStream
handleAudioStream(w, which) ==
    IF which = "remote"
    THEN Emit([w EXCEPT !.remoteAudioStream = TRUE], "remoteAudioStreamAvailable")
    ELSE Emit([w EXCEPT !.localAudioStream = TRUE], "localAudioStreamAvailable")

\* AbortController.abort(): the listener setupVideo added to the signal
\* pauses that attempt's video element and rejects its load promise
Abort(w, c) ==
    IF ~w.vm[c].made THEN w
    ELSE [w EXCEPT !.vm[c].playing = FALSE,
                   !.settled[c] = IF w.pc[c] = "load" /\ @ = "pending" THEN "abort" ELSE @]

\* the body of endCall's cleanupPromise up to its first await, for an
\* initialized controller
TeardownBegin(w) ==
    LET w0 == unsubscribeFromMediaStreams(w)
        w1 == IF w0.eventManager = 0 THEN w0
              ELSE LET c == EventManagerCleanup(w0, w0.eventManager) IN
                   IF c.threw THEN c ELSE [c EXCEPT !.eventManager = 0]
    IN  IF w1.threw
        THEN \* catch + finally, then the assignment of the settled promise
             [Emit(w1, "onError") EXCEPT !.threw = FALSE, !.isCleaningUp = FALSE,
                                         !.cleanupPromise = "settled"]
        ELSE LET w2 == IF w1.videoManager = 0 THEN w1
                       ELSE [VideoCleanup(w1, w1.videoManager) EXCEPT !.videoManager = 0]
             IN  [endAgent(w2) EXCEPT !.teardown = TRUE, !.cleanupPromise = "pending"]

\* Variant of endCall without the test of isInitialized and isInitializing
endCallUnguarded(w) ==
    IF w.isCleaningUp /\ w.cleanupPromise # "null" THEN w
    ELSE TeardownBegin([w EXCEPT !.isCleaningUp = TRUE])

\* endCall up to its await
endCall(w) ==
    IF w.isCleaningUp /\ w.cleanupPromise # "null" THEN w
    ELSE IF ~w.isInitialized /\ ~w.isInitializing THEN w
    ELSE LET w1 == [w EXCEPT !.isCleaningUp = TRUE] IN
         IF w1.isInitializing
         THEN LET w2 == IF w1.abortController = 0 THEN w1
                        ELSE [Abort(w1, w1.abortController) EXCEPT !.abortController = 0]
                  w3 == Emit([w2 EXCEPT !.isInitializing = FALSE, !.isCallActive = FALSE,
                                        !.aborted = [a \in Ids |-> @[a] \/ InFlight(w, a)],
                                        !.undecided = [a \in Ids |->
                                            @[a] \/ (InFlight(w, a) /\ w.settled[a] = "pending")]],
                             "onLoadingChange(false)")
              IN  \* finally runs before the promise is assigned to the field
                  [w3 EXCEPT !.isCleaningUp = FALSE, !.cleanupPromise = "settled"]
         ELSE TeardownBegin(w1)

\* the catch block of startCall; kind is "abort" for the AbortError
Catch(w, a, kind) ==
    LET w1 == IF kind = "abort" THEN w ELSE Emit(w, "onError")
        w2 == Emit([w1 EXCEPT !.isInitializing = FALSE, !.isCallActive = FALSE,
                              !.threw = FALSE],
                   "onLoadingChange(false)")
        w3 == IF kind = "abort" THEN w2 ELSE endCall(w2)
    IN  Fulfil([w3 EXCEPT !.pc[a] = "done", !.settled[a] = "ok", !.params[a] = NoName,
                          !.player[a] = 0], a)

\* startCall from the re-check of the flags to the await of setupVideo
startCallBody(w, a, name) ==
    IF w.isInitialized \/ w.isInitializing
    THEN Fulfil([w EXCEPT !.isCallActive = FALSE, !.pc[a] = "done", !.settled[a] = "ok",
                          !.params[a] = NoName], a)
    ELSE LET w1 == Emit([w EXCEPT !.isInitializing = TRUE, !.abortController = a,
                                  !.params[a] = NoName],
                        "onLoadingChange(true)")
             w2 == [w1 EXCEPT !.stateManager = a, !.sm[a] = NewState,
                              !.out = Append(@, [Ev("lookup", a) EXCEPT !.name = name])]
             cfg == avatarsSDKData(ToLowerCase(name))
         IN  IF cfg = NoConfig THEN Catch(w2, a, "err")
             ELSE LET w3 == VideoManagerNew([w2 EXCEPT !.avatarConfig = cfg, !.videoManager = a], a)
                  IN  Cmd([w3 EXCEPT !.pc[a] = "load", !.settled[a] = "pending", !.player[a] = a],
                          "load", a)

startCall(w, name) ==
    IF w.isCallActive THEN Fulfil(w, 0)
    ELSE LET a == w.nextId
             w1 == [w EXCEPT !.isCallActive = TRUE, !.nextId = a + 1]
         IN  IF w1.isCleaningUp /\ w1.cleanupPromise # "null"
             THEN [w1 EXCEPT !.pc[a] = "awaitCleanup", !.params[a] = name,
                             !.settled[a] = IF w1.cleanupPromise = "pending" THEN "pending" ELSE "ok"]
             ELSE startCallBody(w1, a, name)

\* Variant of initialize that registers the callbacks before it tests the
\* flags
initializeCallbacksFirst(w, name, callbacks) ==
    LET w1 == IF callbacks
              THEN [w EXCEPT !.listeners = [id |-> w.nextId, onAgentStart |-> TRUE,
                                            onAgentEnd |-> TRUE]]
              ELSE w
    IN  IF w.isInitialized \/ w.isInitializing THEN w1 ELSE startCall(w1, name)

initialize(w, name, callbacks) ==
    IF w.isInitialized \/ w.isInitializing THEN w
    ELSE LET w1 == IF callbacks
                   THEN [w EXCEPT !.listeners = [id |-> w.nextId, onAgentStart |-> TRUE,
                                                 onAgentEnd |-> TRUE]]
                   ELSE w
         IN  startCall(w1, name)

\* startCall after "await setupVideo" resolved: prefetchVideo on the
\* controller's current videoManager
startCallAfterLoad(w, a) ==
    IF w.videoManager = 0 THEN Catch(w, a, "err")
    ELSE Cmd([w EXCEPT !.pc[a] = "prefetch", !.settled[a] = "pending",
                       !.player[a] = w.videoManager],
             "prefetch", w.videoManager)

startCallAfterPrefetch(w, a) == startAgent([w EXCEPT !.pc[a] = "agent", !.player[a] = 0], a)

\* Variant of startCallAfterAgent that emits onAgentStart as soon as the
\* flags are set, before the event manager is made and subscribed
startCallAfterAgentEarly(w, a) ==
    LET w0 == Emit([w EXCEPT !.isInitialized = TRUE, !.isCallActive = TRUE,
                             !.isInitializing = FALSE],
                   "onAgentStart")
        w1 == [w0 EXCEPT !.eventManager = a,
                         !.em[a] = [BlankEvents EXCEPT
                                       !.made = TRUE,
                                       !.videoManager = w.videoManager,
                                       !.stateManager = w.stateManager,
                                       !.avatarConfig = w.avatarConfig]]
        w2 == subscribeToEvents(w1, a)
    IN  IF w2.threw THEN Catch(w2, a, "err")
        ELSE Fulfil([Emit(subscribeToMediaStreams(w2), "onLoadingChange(false)")
                        EXCEPT !.pc[a] = "done"], a)

\* startCall after "await startAgent" : lines 536-565
startCallAfterAgent(w, a) ==
    LET w1 == [w EXCEPT !.isInitialized = TRUE, !.isCallActive = TRUE,
                        !.isInitializing = FALSE, !.eventManager = a,
                        !.em[a] = [BlankEvents EXCEPT
                                      !.made = TRUE,
                                      !.videoManager = w.videoManager,
                                      !.stateManager = w.stateManager,
                                      !.avatarConfig = w.avatarConfig]]
        w2 == subscribeToEvents(w1, a)
    IN  IF w2.threw THEN Catch(w2, a, "err")
        ELSE Fulfil([Emit(Emit(subscribeToMediaStreams(w2), "onLoadingChange(false)"),
                          "onAgentStart")
                        EXCEPT !.pc[a] = "done"], a)

\* Variant of TeardownResume that leaves the two audio streams in place
TeardownResumeKeepsStreams(w) ==
    Emit([w EXCEPT !.isInitialized = FALSE, !.isCallActive = FALSE,
                   !.abortController = 0, !.stateManager = 0,
                   !.avatarConfig = NoConfig],
         "onAgentEnd")

\* the rest of endCall's cleanupPromise, after "await endAgent()", up to
\* the emit of onAgentEnd
TeardownResume(w) ==
    Emit([w EXCEPT !.isInitialized = FALSE, !.isCallActive = FALSE,
                   !.abortController = 0, !.stateManager = 0,
                   !.avatarConfig = NoConfig,
                   !.remoteAudioStream = FALSE, !.localAudioStream = FALSE],
         "onAgentEnd")

\* Variant of TeardownFinally that leaves isCleaningUp set
TeardownFinallyKeepsFlag(w) ==
    [w EXCEPT !.cleanupPromise = "null", !.teardown = FALSE,
              !.settled = [a \in Ids |-> IF w.pc[a] = "awaitCleanup" THEN "ok" ELSE @[a]],
              !.resetting = [@ EXCEPT !.waiting = 0, !.ready = @ + w.resetting.waiting]]

\* the finally block: the promise resolves, which wakes the startCalls
\* that await it
TeardownFinally(w) ==
    [w EXCEPT !.isCleaningUp = FALSE, !.cleanupPromise = "null", !.teardown = FALSE,
              !.settled = [a \in Ids |-> IF w.pc[a] = "awaitCleanup" THEN "ok" ELSE @[a]],
              !.resetting = [@ EXCEPT !.waiting = 0, !.ready = @ + w.resetting.waiting]]

\* getInstance(options): the object is made only when there is none
getInstance(w) ==
    LET w1 == IF w.instance = 0
              THEN [w EXCEPT !.made = @ + 1, !.instance = w.made + 1]
              ELSE w
    IN  Cmd(w1, "getInstance", w1.instance)

\* resetInstance() up to its await.  endCall() of the first object is the
\* endCall of this model and its promise is pending while a teardown is in
\* flight; a later object was never started, its endCall() returns at once
resetInstance(w) ==
    IF w.instance = 0 THEN w
    ELSE IF w.instance = 1
    THEN LET w1 == endCall(w) IN
         IF w1.teardown THEN [w1 EXCEPT !.resetting.waiting = @ + 1, !.resetting.on[1] = @ + 1]
         ELSE [w1 EXCEPT !.resetting.ready = @ + 1, !.resetting.on[1] = @ + 1]
    ELSE [w EXCEPT !.resetting.ready = @ + 1, !.resetting.on[w.instance] = @ + 1]

\* resetInstance() after its await, for a call made on object i:
\* this.instance is read again
resetInstanceResume(w, i) ==
    LET w1 == [w EXCEPT !.resetting.ready = @ - 1, !.resetting.on[i] = @ - 1] IN
    IF w.instance = 0 THEN Cmd(w1, "resetInstanceRejected", 0)
    ELSE [w1 EXCEPT !.listeners = IF w.instance = 1 THEN NoListeners ELSE @,
                    !.instance = 0]

\* Variant of pause that does not forward to the voice agent
pauseVideoOnly(w) ==
    LET w1 == IF w.stateManager = 0 THEN w ELSE setAgentStatus(w, w.stateManager, "idle")
    IN  IF w1.videoManager = 0 THEN w1 ELSE VideoPause(w1, w1.videoManager)

pause(w) ==
    LET w1 == IF w.stateManager = 0 THEN w ELSE setAgentStatus(w, w.stateManager, "idle")
        w2 == IF w1.videoManager = 0 THEN w1 ELSE VideoPause(w1, w1.videoManager)
    IN  AgentForward(w2, "agentPause")

resume(w) ==
    LET w1 == IF w.stateManager = 0 THEN w ELSE setAgentStatus(w, w.stateManager, "listening")
        w2 == IF w1.videoManager = 0 THEN w1
              ELSE [VideoResume(w1, w1.videoManager) EXCEPT !.vm[w1.videoManager].held = FALSE]
    IN  AgentForward(w2, "agentResume")

----------------------------------------------------------------------------
\* The state after the first getInstance(): nothing started

Init ==
    /\ instance = 1
    /\ made = 1
    /\ resetting = [waiting |-> 0, ready |-> 0, on |-> [i \in 1..MaxInstances |-> 0]]
    /\ isInitialized = FALSE
    /\ isInitializing = FALSE
    /\ isCallActive = FALSE
    /\ isCleaningUp = FALSE
    /\ cleanupPromise = "null"
    /\ abortController = 0
    /\ videoManager = 0
    /\ stateManager = 0
    /\ eventManager = 0
    /\ avatarConfig = NoConfig
    /\ listeners = NoListeners
    /\ voiceAgent = 0
    /\ agentStarted = FALSE
    /\ agent = [a \in Ids |-> "none"]
    /\ agentSubs = [a \in Ids |-> <<>>]
    /\ pc = [a \in Ids |-> "unused"]
    /\ settled = [a \in Ids |-> "ok"]
    /\ params = [a \in Ids |-> NoName]
    /\ player = [a \in Ids |-> 0]
    /\ nextId = 1
    /\ teardown = FALSE
    /\ vm = [a \in Ids |-> BlankVideo]
    /\ container = 0
    /\ sm = [a \in Ids |-> NewState]
    /\ em = [a \in Ids |-> BlankEvents]
    /\ did = Did("init", 0)
    /\ out = <<>>
    /\ aborted = [a \in Ids |-> FALSE]
    /\ undecided = [a \in Ids |-> FALSE]
    /\ remoteAudioStream = FALSE
    /\ localAudioStream = FALSE
    /\ mediaSubs = [g \in Ids |-> 0]
    /\ loading = 0

\* Math.random() of listener e when it selects from its list of the given
\* type; a listener that selects nothing draws nothing (0)
DrawsOf(e, type) ==
    LET cfg == em[e].avatarConfig
        n == IF type \in SectionTypes /\ cfg # NoConfig THEN Len(SectionsOf(cfg, type)) ELSE 0
    IN  0..(IF n > 1 THEN n - 1 ELSE 0)

\* one draw for each listener in subs; types[e] is the list e selects from
Draws(subs, types) ==
    {f \in [Ids -> 0..(MaxSections - 1)] :
        \A e \in Ids : f[e] \in (IF e \in Range(subs) THEN DrawsOf(e, types[e]) ELSE {0})}

\* The list an agent event selects from
EventType(ev) ==
    CASE ev = "speaking" -> "speaking"
      [] ev \in {"listening", "callStarted"} -> "listening"
      [] OTHER -> "none"

\* The list listener e selects from when its section has ended
EndedType(e) ==
    LET s == em[e].stateManager
    IN  IF s = 0 \/ em[e].currentSection = NoSection
             \/ sm[s].agentStatus = em[e].currentSection.type
        THEN "none" ELSE sm[s].agentStatus

----------------------------------------------------------------------------
\* Public calls

Initialize(limit, name, callbacks) ==
    /\ nextId <= limit
    /\ did' = Did("initialize", 0)
    /\ SetWorld(initialize(World, name, callbacks))

EndCall == did' = Did("endCall", 0) /\ SetWorld(endCall(World))

Pause == did' = Did("pause", 0) /\ SetWorld(pause(World))

\* pause(), observed: the player it pauses is marked as held
PauseObserved ==
    /\ did' = Did("pause", 0)
    /\ SetWorld(LET w == pause(World) IN
                IF videoManager = 0 THEN w ELSE [w EXCEPT !.vm[videoManager].held = TRUE])

Resume == did' = Did("resume", 0) /\ SetWorld(resume(World))

GetInstance ==
    /\ instance = 0 => made < MaxInstances
    /\ did' = Did("getInstance", 0)
    /\ SetWorld(getInstance(World))

ResetInstance ==
    /\ resetting.waiting + resetting.ready < MaxResets
    /\ did' = Did("resetInstance", 0)
    /\ SetWorld(resetInstance(World))

\* the calls on object 1 that wait for a teardown are not ready
AfterResetAwait(i) ==
    /\ resetting.ready > 0
    /\ resetting.on[i] > (IF i = 1 THEN resetting.waiting ELSE 0)
    /\ did' = Did("afterResetAwait", i)
    /\ SetWorld(resetInstanceResume(World, i))

\* Continuations of the awaits of startCall

AfterCleanupWait(a) ==
    /\ did' = Did("afterCleanupWait", a)
    /\ pc[a] = "awaitCleanup" /\ settled[a] = "ok"
    /\ SetWorld(startCallBody(World, a, params[a]))

AfterSetupVideo(a) ==
    /\ did' = Did("afterSetupVideo", a)
    /\ pc[a] = "load" /\ settled[a] # "pending"
    /\ SetWorld(IF settled[a] = "ok" THEN startCallAfterLoad(World, a)
                ELSE Catch(World, a, settled[a]))

AfterPrefetchVideo(a) ==
    /\ did' = Did("afterPrefetchVideo", a)
    /\ pc[a] = "prefetch" /\ settled[a] # "pending"
    /\ SetWorld(IF settled[a] = "ok" THEN startCallAfterPrefetch(World, a)
                ELSE Catch(World, a, settled[a]))

AfterStartAgent(a) ==
    /\ did' = Did("afterStartAgent", a)
    /\ pc[a] = "agent" /\ settled[a] = "ok"
    /\ SetWorld(startCallAfterAgent(World, a))

\* Continuation of the await of endCall's teardown.  The consumer's
\* onAgentEnd callback, when still registered, may call initialize() again.
AfterEndAgent(limit, reenter, name, callbacks) ==
    /\ teardown
    /\ did' = Did("afterEndAgent", 0)
    /\ reenter => listeners.onAgentEnd /\ nextId <= limit
    /\ ~reenter => name = NoName /\ ~callbacks
    /\ LET w1 == TeardownResume(World)
           w2 == IF reenter THEN initialize(w1, name, callbacks) ELSE w1
       IN  SetWorld(TeardownFinally(w2))

\* The environment: the media element, the voice agent, playback

Waiting(v) == {a \in Ids : pc[a] \in {"load", "prefetch"} /\ player[a] = v /\ settled[a] = "pending"}

VideoCanPlayThrough(v) ==
    /\ did' = Did("canplaythrough", v)
    /\ Waiting(v) # {}
    /\ SetWorld([World EXCEPT !.settled = [a \in Ids |-> IF a \in Waiting(v) THEN "ok" ELSE @[a]]])

VideoError(v) ==
    /\ did' = Did("videoError", v)
    /\ Waiting(v) # {}
    /\ SetWorld([World EXCEPT !.settled = [a \in Ids |-> IF a \in Waiting(v) THEN "err" ELSE @[a]]])

AgentStartSettles(a, ok) ==
    /\ did' = Did("agentStartSettles", a)
    /\ pc[a] = "agent" /\ settled[a] = "pending"
    /\ SetWorld(startAgentResume(World, a, ok))

AgentEmits(g, ev) ==
    /\ did' = Did(ev, g)
    /\ agent[g] = "started"
    /\ \E draw \in Draws(agentSubs[g], [e \in Ids |-> EventType(ev)]) :
          SetWorld([EmitAgentEvent(World, agentSubs[g], ev, draw) EXCEPT !.threw = FALSE])

\* The agent emits callEnded after end() was called on it
AgentEmitsAfterEnd(g) ==
    /\ did' = Did("callEnded", g)
    /\ agent[g] = "ended"
    /\ \E draw \in Draws(agentSubs[g], [e \in Ids |-> "none"]) :
          SetWorld([EmitAgentEvent(World, agentSubs[g], "callEnded", draw) EXCEPT !.threw = FALSE])

\* The agent announces its remote or its local audio stream: every
\* registration of the controller's handler runs
RECURSIVE EmitAudioStream(_, _, _)
EmitAudioStream(w, n, which) ==
    IF n = 0 THEN w ELSE EmitAudioStream(handleAudioStream(w, which), n - 1, which)

AgentStream(g, which) ==
    /\ did' = Did(which, g)
    /\ agent[g] \in {"starting", "started"}
    /\ SetWorld(EmitAudioStream(World, mediaSubs[g], which))

PlaybackReachesEnd(v) ==
    /\ did' = Did("playbackReachesEnd", v)
    /\ vm[v].made /\ vm[v].playing /\ vm[v].armed /\ ~vm[v].atEnd
    /\ SetWorld([World EXCEPT !.vm[v].atEnd = TRUE])

TimeUpdate(v) ==
    /\ did' = Did("timeupdate", v)
    /\ vm[v].made /\ vm[v].armed /\ vm[v].atEnd /\ vm[v].currentSection # NoRange
    /\ \E draw \in Draws(vm[v].subs, [e \in Ids |-> EndedType(e)]) :
          SetWorld([onTimeUpdate(World, v, draw) EXCEPT !.threw = FALSE])

\* every range of a profile of the table
TableRanges == {[start |-> (i - 1) * 10, end |-> i * 10] : i \in 1..MaxSections}

\* The section player used directly by whoever holds it: the controller's
\* current player is played, paused, resumed and disposed in any order
PlayerPlay(v, section) ==
    /\ did' = Did("playerPlay", v)
    /\ v # 0 /\ v = videoManager
    /\ section \in Range(avatarConfig.speakingSections) \cup Range(avatarConfig.listeningSections)
    /\ SetWorld(playSection(World, v, section))

PlayerPause(v) ==
    /\ did' = Did("playerPause", v)
    /\ v # 0 /\ v = videoManager
    /\ SetWorld(VideoPause(World, v))

PlayerResume(v) ==
    /\ did' = Did("playerResume", v)
    /\ v # 0 /\ v = videoManager
    /\ SetWorld(VideoResume(World, v))

PlayerDispose(v) ==
    /\ did' = Did("playerDispose", v)
    /\ v # 0 /\ v = videoManager
    /\ SetWorld(VideoCleanup(World, v))

\* The page takes the container element out of the document, with the
\* video element it holds, or puts an empty one in
ContainerRemoved ==
    /\ did' = Did("containerRemoved", 0)
    /\ container # NoContainer
    /\ SetWorld([Detach(World) EXCEPT !.container = NoContainer])

ContainerAdded ==
    /\ did' = Did("containerAdded", 0)
    /\ container = NoContainer
    /\ SetWorld([World EXCEPT !.container = 0])

\* The controller with its collaborators' completions, and no playback;
\* registers says whether initialize() is given callbacks (one of which,
\* onAgentEnd, may call initialize() again)
Lifecycle(limit, names, registers) ==
    \/ \E name \in names, callbacks \in registers : Initialize(limit, name, callbacks)
    \/ EndCall
    \/ \E a \in Ids : AfterSetupVideo(a)
    \/ \E a \in Ids : AfterPrefetchVideo(a)
    \/ \E a \in Ids : AfterStartAgent(a)
    \/ \E name \in names \cup {NoName}, reenter \in registers, callbacks \in registers :
          AfterEndAgent(limit, reenter, name, callbacks)
    \/ \E v \in Ids : VideoCanPlayThrough(v)
    \/ \E v \in Ids : VideoError(v)
    \/ \E a \in Ids, ok \in BOOLEAN : AgentStartSettles(a, ok)

\* What happens to a session: agent events, playback, pause and resume
Playback ==
    \/ Pause
    \/ Resume
    \/ \E g \in Ids, ev \in AgentEvents : AgentEmits(g, ev)
    \/ \E v \in Ids : PlaybackReachesEnd(v)
    \/ \E v \in Ids : TimeUpdate(v)

\* One avatar of the table and one that is not in it, in either case
SomeNames == {n \in AvatarNames : n.key \in {<<1, MaxSections - 1>>, UnknownKey}}

Next == Lifecycle(MaxAttempts, SomeNames, BOOLEAN) \/ \E a \in Ids : AfterCleanupWait(a)

Spec == Init /\ [][Next]_vars

\* The lifecycle of a host that registers no callbacks, in an environment
\* that is fair: a continuation whose promise has settled runs, a video
\* that is loading fires canplaythrough or error, an agent start returns,
\* the teardown's await of endAgent() returns
NextFair == Lifecycle(MaxAttempts, SomeNames, {FALSE})

\* Weak fairness of each of these steps, written out: either the step is
\* disabled again and again, or it is taken again and again; the guard of
\* the action says when it is enabled, and its label in did, which every
\* such step changes, says when it is taken
Fairness ==
    /\ \A a \in Ids :
          /\ \/ []<>~(pc[a] = "load" /\ settled[a] # "pending")
             \/ []<><<did' = Did("afterSetupVideo", a)>>_vars
          /\ \/ []<>~(pc[a] = "prefetch" /\ settled[a] # "pending")
             \/ []<><<did' = Did("afterPrefetchVideo", a)>>_vars
          /\ \/ []<>~(pc[a] = "agent" /\ settled[a] = "ok")
             \/ []<><<did' = Did("afterStartAgent", a)>>_vars
          /\ \/ []<>~(pc[a] = "agent" /\ settled[a] = "pending")
             \/ []<><<did' = Did("agentStartSettles", a)>>_vars
    /\ \A v \in Ids :
          \/ []<>(Waiting(v) = {})
          \/ []<><<did' \in {Did("canplaythrough", v), Did("videoError", v)}>>_vars
    /\ \/ []<>~teardown
       \/ []<><<did' = Did("afterEndAgent", 0)>>_vars

SpecFair == Init /\ [][NextFair]_vars /\ Fairness

\* Sessions of a host that registers no callbacks, over every profile of
\* the table under the name that finds it
TableNames == {n \in AvatarNames : n.key \in TableKeys /\ ~n.upper}

NextSession == Lifecycle(MaxSessions, TableNames, {FALSE}) \/ Playback

SpecSession == Init /\ [][NextSession]_vars

\* Sessions of one profile that the host neither pauses nor resumes, with
\* the agent's audio streams and the callEnded an agent emits after its end
OneName == {n \in TableNames : n.key = <<1, MaxSections - 1>>}

NextMedia ==
    \/ Lifecycle(MaxSessions, OneName, {FALSE})
    \/ \E g \in Ids, ev \in AgentEvents : AgentEmits(g, ev)
    \/ \E v \in Ids : PlaybackReachesEnd(v)
    \/ \E v \in Ids : TimeUpdate(v)
    \/ \E g \in Ids, which \in {"remote", "local"} : AgentStream(g, which)
    \/ \E g \in Ids : AgentEmitsAfterEnd(g)

SpecMedia == Init /\ [][NextMedia]_vars

\* Starts of one profile that endCall() may abort and that may overlap,
\* with the agents' events and the playback
NextOverlap ==
    \/ Lifecycle(MaxAttempts, OneName, {FALSE})
    \/ \E g \in Ids, ev \in AgentEvents : AgentEmits(g, ev)
    \/ \E v \in Ids : PlaybackReachesEnd(v)
    \/ \E v \in Ids : TimeUpdate(v)

SpecOverlap == Init /\ [][NextOverlap]_vars

\* Sessions of one profile in which every pause() is observed
NextPaused ==
    \/ Lifecycle(MaxSessions, OneName, {FALSE})
    \/ PauseObserved
    \/ Resume
    \/ \E g \in Ids, ev \in AgentEvents : AgentEmits(g, ev)
    \/ \E v \in Ids : PlaybackReachesEnd(v)
    \/ \E v \in Ids : TimeUpdate(v)

SpecPaused == Init /\ [][NextPaused]_vars

\* One section player, made by a start of the controller, which goes on to
\* subscribe its event manager, and then used directly, in a page whose
\* container comes and goes
NextPlayer ==
    \/ \E name \in OneName : Initialize(MaxSessions, name, FALSE)
    \/ \E a \in Ids : AfterSetupVideo(a)
    \/ \E a \in Ids : AfterPrefetchVideo(a)
    \/ \E a \in Ids : AfterStartAgent(a)
    \/ \E v \in Ids : VideoCanPlayThrough(v)
    \/ \E a \in Ids : AgentStartSettles(a, TRUE)
    \/ \E v \in Ids, section \in TableRanges : PlayerPlay(v, section)
    \/ \E v \in Ids : PlayerPause(v)
    \/ \E v \in Ids : PlayerResume(v)
    \/ \E v \in Ids : PlayerDispose(v)
    \/ \E v \in Ids : PlaybackReachesEnd(v)
    \/ \E v \in Ids : TimeUpdate(v)
    \/ ContainerRemoved
    \/ ContainerAdded

SpecPlayer == Init /\ [][NextPlayer]_vars

\* The shared instance: a host that takes the controller from getInstance()
\* for every call it makes, and resets it
NextInstance ==
    \/ GetInstance
    \/ ResetInstance
    \/ \E i \in 1..MaxInstances : AfterResetAwait(i)
    \/ instance = 1 /\ \E name \in OneName, callbacks \in BOOLEAN :
                          Initialize(MaxSessions, name, callbacks)
    \/ instance = 1 /\ EndCall
    \/ \E a \in Ids : AfterSetupVideo(a)
    \/ \E a \in Ids : AfterPrefetchVideo(a)
    \/ \E a \in Ids : AfterStartAgent(a)
    \/ AfterEndAgent(MaxSessions, FALSE, NoName, FALSE)
    \/ \E v \in Ids : VideoCanPlayThrough(v)
    \/ \E v \in Ids : VideoError(v)
    \/ \E a \in Ids, ok \in BOOLEAN : AgentStartSettles(a, ok)

SpecInstance == Init /\ [][NextInstance]_vars

----------------------------------------------------------------------------
\* Properties

\* how many entries of a step's output are the given op
Count(seq, op) == Cardinality({i \in DOMAIN seq : seq[i].op = op})

\* the startCall invocations that are suspended at an await
Suspended == {a \in Ids : InFlight(World, a)}

\* the event managers that listen to an agent or to a video manager
Subscribed ==
    UNION {Range(agentSubs[g]) : g \in Ids} \cup UNION {Range(vm[v].subs) : v \in Ids}

\* the step is the continuation of invocation a after one of its awaits
Continues(a) ==
    did' \in {Did(op, a) : op \in {"afterCleanupWait", "afterSetupVideo",
                                   "afterPrefetchVideo", "afterStartAgent"}}

\* C1: sessions never overlap: at most one setup sequence is in flight or
\* active at a time, and at most one event manager is subscribed to agent
\* and player events.
C1_NoOverlap ==
    /\ Cardinality(Suspended) + (IF isInitialized THEN 1 ELSE 0) <= 1
    /\ Cardinality(Subscribed) <= 1

\* C2: once endCall() has aborted a setup that is suspended at the load, at
\* the prefetch or at the agent start, that setup never marks the session
\* active, never starts the agent, never subscribes an event manager and
\* never emits onAgentStart.
C2_AbortedSetupStops ==
    [][\A a \in Ids : aborted[a] /\ Continues(a) =>
          /\ isInitialized' => isInitialized
          /\ Count(out', "agentStart") = 0
          /\ Count(out', "subscribe") = 0
          /\ Count(out', "onAgentStart") = 0]_vars

\* C3: when the load or the prefetch of a setup that was not aborted fails,
\* onError is emitted exactly once, VideoManager.cleanup() is called, and
\* videoManager, stateManager and avatarConfig are cleared, leaving the
\* controller neither initialized nor initializing.
C3_FailureTearsDown ==
    [][\A a \in Ids :
          /\ ~aborted[a]
          /\ did' \in {Did("afterSetupVideo", a), Did("afterPrefetchVideo", a)}
          /\ settled[a] = "err"
          => /\ Count(out', "onError") = 1
             /\ Count(out', "dispose") = 1
             /\ videoManager' = 0 /\ stateManager' = 0 /\ avatarConfig' = NoConfig
             /\ ~isInitialized' /\ ~isInitializing']_vars

\* the playRange entries of a step's output that event manager e issued
PlaysBy(seq, e) == {i \in DOMAIN seq : seq[i].op = "playRange" /\ seq[i].by = e}

\* event manager e has its listening section playing, not yet at its end
ListeningRangePlaying(e) ==
    LET v == em[e].videoManager
        cur == em[e].currentSection
    IN  /\ em[e].made /\ v # 0 /\ em[e].stateManager # 0 /\ em[e].avatarConfig # NoConfig
        /\ cur.type = "listening"
        /\ cur.index + 1 \in DOMAIN em[e].avatarConfig.listeningSections
        /\ vm[v].currentSection = em[e].avatarConfig.listeningSections[cur.index + 1]
        /\ vm[v].playing /\ vm[v].armed /\ ~vm[v].atEnd

\* the step is the agent's "speaking" event reaching event manager e
SpeakingReaches(e) ==
    \E g \in Ids : did' = Did("speaking", g) /\ e \in Range(agentSubs[g])

\* C4 as claimed: a "speaking" event that arrives while a listening range
\* is playing sets the status to speaking but issues no playRange; the
\* speaking range is first played when the listening range has finished.
C4_SpeakingWaitsForRangeEnd ==
    [][\A e \in Ids : SpeakingReaches(e) /\ ListeningRangePlaying(e) =>
          /\ sm'[em[e].stateManager].agentStatus = "speaking"
          /\ PlaysBy(out', e) = {}]_vars

\* C4 amended: a "speaking" event that arrives while a listening range is
\* playing sets the status to speaking and, in the same step, issues exactly
\* one playRange of a range of the speaking list, and the listening range is
\* cut short in that step (with an empty speaking list it issues none).
C4_SpeakingPlaysAtOnce ==
    [][\A e \in Ids : SpeakingReaches(e) /\ ListeningRangePlaying(e) =>
          /\ sm'[em[e].stateManager].agentStatus = "speaking"
          /\ LET sections == em[e].avatarConfig.speakingSections IN
             IF Len(sections) = 0 THEN PlaysBy(out', e) = {}
             ELSE /\ \E i \in DOMAIN out' :
                     /\ PlaysBy(out', e) = {i}
                     /\ out'[i].id = em[e].videoManager
                     /\ out'[i].range \in Range(sections)
                  /\ \E j \in DOMAIN out' :
                     /\ out'[j].op = "playRange"
                     /\ out'[j].id = em[e].videoManager
                     /\ out'[j].cut = vm[em[e].videoManager].currentSection]_vars

C4_Witness ==
    /\ did.op = "speaking"
    /\ \E e \in Ids, i \in DOMAIN out :
          /\ out[i].op = "playRange" /\ out[i].by = e
          /\ out[i].cut \in Range(em[e].avatarConfig.listeningSections)
          /\ out[i].range \in Range(em[e].avatarConfig.speakingSections)
          /\ sm[em[e].stateManager].agentStatus = "speaking"

\* the range of the section that event manager e has selected
SelectedRange(e) ==
    SectionsOf(em[e].avatarConfig, em[e].currentSection.type)[em[e].currentSection.index + 1]

\* C5: when a range has finished and the status equals the type of the
\* event manager's selected section, the event manager issues exactly one
\* playRange, of the range of its selected section (the range that has just
\* finished, when it was the last to play on that player), and the
\* selected section stays as it was, whatever Math.random() would return.
C5_SameStatusLoops ==
    [][\A v \in Ids, e \in Ids :
          /\ did' = Did("timeupdate", v)
          /\ e \in Range(vm[v].subs)
          /\ em[e].stateManager # 0
          /\ em[e].currentSection # NoSection
          /\ sm[em[e].stateManager].agentStatus = em[e].currentSection.type
          => /\ \E i \in DOMAIN out' :
                   /\ PlaysBy(out', e) = {i}
                   /\ out'[i].id = v
                   /\ out'[i].range = SelectedRange(e)
                   /\ vm[v].subs = <<e>> => out'[i].range = vm[v].currentSection
             /\ em'[e].currentSection = em[e].currentSection
             /\ sm'[em[e].stateManager].currentSection = sm[em[e].stateManager].currentSection]_vars

C5_Witness ==
    /\ did.op = "timeupdate"
    /\ \E e \in Ids, i \in DOMAIN out :
          /\ out[i] = [Ev("Looping the same section", e) EXCEPT !.by = e]
          /\ i + 1 \in PlaysBy(out, e)
          /\ out[i + 1].range = vm[did.id].currentSection
          /\ em[e].currentSection.index = 1

\* the status that event manager e reads is the same after the step
StatusStays(e) ==
    em[e].stateManager # 0 /\ em'[e].stateManager = em[e].stateManager
    /\ sm'[em[e].stateManager].agentStatus = sm[em[e].stateManager].agentStatus

StatusEvents == {"speaking", "listening", "callStarted"}

\* C6 as claimed: of two consecutive playRange calls of an event manager
\* between which the status has had one value throughout, the second has
\* the range of the first, also when what lies between them is the agent
\* emitting again the status event it is already in.
C6_UnchangedStatusSameRange ==
    [][\A e \in Ids : em[e].steady /\ StatusStays(e) =>
          \A i \in PlaysBy(out', e) : out'[i].range = em[e].played]_vars

\* C6 amended: of two consecutive playRange calls of an event manager
\* between which the status has had one value throughout and the agent has
\* emitted no speaking, listening or callStarted event, the second has the
\* range of the first; an event of the status it is already in selects anew.
C6_LoopUntilNextEvent ==
    [][\A e \in Ids : em[e].steady /\ StatusStays(e) /\ did'.op \notin StatusEvents =>
          \A i \in PlaysBy(out', e) : out'[i].range = em[e].played]_vars

C6_Witness ==
    /\ did.op = "timeupdate"
    /\ \E e \in Ids :
          /\ em[e].steady
          /\ PlaysBy(out, e) # {}
          /\ \A i \in PlaysBy(out, e) : out[i].range = em[e].played
          /\ em[e].currentSection.index = 1

\* the selected section recorded in session state st has the given type and
\* an index inside that list of the profile
Selected(st, cfg, type) ==
    /\ st.agentStatus = type
    /\ st.currentSection.type = type
    /\ cfg # NoConfig
    /\ st.currentSection.index \in 0..(Len(SectionsOf(cfg, type)) - 1)

\* the step is the agent's status event ev reaching event manager e
StatusEventReaches(ev, e) ==
    /\ ev \in StatusEvents
    /\ \E g \in Ids : did' = Did(ev, g) /\ e \in Range(agentSubs[g])
    /\ em[e].stateManager # 0

\* C7 as claimed: right after the status becomes speaking or listening, by
\* an agent event or by resume(), and whatever the lists of the profile
\* hold, the selected section has the type of the new status and an index
\* inside the list of that type.
C7_EveryStatusSelects ==
    [][/\ \A e \in Ids, ev \in StatusEvents : StatusEventReaches(ev, e) =>
             Selected(sm'[em[e].stateManager], em[e].avatarConfig, EventType(ev))
       /\ did'.op = "resume" /\ isInitialized /\ stateManager # 0 =>
             Selected(sm'[stateManager], avatarConfig, "listening")]_vars

\* C7 amended: right after a speaking, listening or callStarted event whose
\* list in the profile is not empty, the selected section has the type of
\* the new status and an index inside that list; with an empty list, and
\* on resume(), the status is set and the selected section stays what it
\* was.
C7_EventWithSectionsSelects ==
    [][/\ \A e \in Ids, ev \in StatusEvents : StatusEventReaches(ev, e) =>
             LET s == em[e].stateManager
                 cfg == em[e].avatarConfig
             IN  IF cfg # NoConfig /\ Len(SectionsOf(cfg, EventType(ev))) > 0
                 THEN /\ Selected(sm'[s], cfg, EventType(ev))
                      /\ Selected([sm'[s] EXCEPT !.currentSection = em'[e].currentSection],
                                  cfg, EventType(ev))
                 ELSE /\ sm'[s].agentStatus = EventType(ev)
                      /\ em'[e].currentSection = em[e].currentSection
       /\ did'.op = "resume" /\ stateManager # 0 =>
             /\ sm'[stateManager].agentStatus = "listening"
             /\ sm'[stateManager].currentSection = sm[stateManager].currentSection]_vars

C7_Witness ==
    /\ did.op = "speaking"
    /\ \E e \in Range(agentSubs[did.id]) :
          /\ em[e].stateManager # 0
          /\ Selected(sm[em[e].stateManager], em[e].avatarConfig, "speaking")
          /\ sm[em[e].stateManager].currentSection.index = 1
          /\ em[e].currentSection = sm[em[e].stateManager].currentSection

\* what the program holds: every variable but the observations did and out
state ==
    <<isInitialized, isInitializing, isCallActive, isCleaningUp, cleanupPromise,
      abortController, videoManager, stateManager, eventManager, avatarConfig,
      listeners, voiceAgent, agentStarted, agent, agentSubs, pc, settled, params,
      player, nextId, teardown, vm, container, sm, em, aborted, undecided,
      remoteAudioStream, localAudioStream, mediaSubs, instance, made, resetting>>

\* the step changes nothing and emits nothing
NoOp == out' = <<>> /\ UNCHANGED state

\* C8: initialize() on a controller that is initialized or initializing is
\* a no-op: it makes no player, issues no load, prefetch or agent start,
\* emits nothing, leaves the registered callbacks in place and changes no
\* flag.
C8_InitializeIgnored ==
    [][did'.op = "initialize" /\ (isInitialized \/ isInitializing) => NoOp]_vars

C8_Witness ==
    /\ did.op = "initialize" /\ out = <<>>
    /\ isInitialized /\ eventManager # 0
    /\ listeners.id # 0

\* a session whose setup has completed: the controller is initialized, its
\* event manager is wired to a player, it holds that player, and the agent
\* has started
ActiveSession ==
    /\ isInitialized /\ ~isInitializing
    /\ eventManager # 0 /\ em[eventManager].videoManager # 0
    /\ videoManager # 0 /\ agentStarted

\* C9: the first endCall() of an active session unsubscribes its event
\* manager once, disposes its player once and ends the agent once; every
\* endCall() until that teardown completes changes and emits nothing (it
\* returns the promise of that teardown); the teardown completes by
\* emitting onAgentEnd once and leaving the controller not initialized;
\* and endCall() on a controller that is neither initialized nor
\* initializing changes and emits nothing.
C9_OneTeardown ==
    [][/\ did'.op = "endCall" /\ ActiveSession /\ ~isCleaningUp =>
             /\ Count(out', "unsubscribe") = 1
             /\ Count(out', "dispose") = 1
             /\ Count(out', "agentEnd") = 1
             /\ Count(out', "onAgentEnd") = 0
             /\ teardown' /\ isCleaningUp' /\ cleanupPromise' = "pending"
       /\ did'.op = "endCall" /\ teardown => NoOp
       /\ did'.op = "afterEndAgent" =>
             /\ Count(out', "onAgentEnd") = 1
             /\ Count(out', "unsubscribe") + Count(out', "dispose") + Count(out', "agentEnd") = 0
             /\ ~isInitialized' /\ ~teardown'
       /\ did'.op = "endCall" /\ ~isInitialized /\ ~isInitializing => NoOp]_vars

C9_Witness ==
    /\ did.op = "endCall" /\ out = <<>>
    /\ teardown /\ isInitialized /\ eventManager = 0 /\ videoManager = 0 /\ ~agentStarted

\* C10: an initialize() that is called while a teardown is in flight is
\* not dropped: a startCall is suspended until the teardown completes, and
\* when it resumes it goes through the setup from onLoadingChange(true)
\* and the load of the video.
C10_StartWaitsForTeardown ==
    [][/\ did'.op = "initialize" /\ teardown =>
             \E a \in Ids : pc[a] = "unused" /\ pc'[a] = "awaitCleanup"
       /\ \A a \in Ids : did' = Did("afterCleanupWait", a) /\ params[a].key \in TableKeys =>
             /\ Count(out', "onLoadingChange(true)") = 1
             /\ Count(out', "load") = 1]_vars

\* the step is endCall() taking its abort branch while invocation a is
\* suspended at the given await
Aborts(a, at) ==
    /\ did'.op = "endCall"
    /\ isInitializing /\ ~(isCleaningUp /\ cleanupPromise # "null")
    /\ pc[a] = at

\* C11: an endCall() that aborts a setup suspended at the prefetch runs the
\* teardown (the player is disposed; videoManager, stateManager and
\* avatarConfig are cleared; the controller is neither initialized nor
\* initializing), emits no onError and emits onLoadingChange(false).
C11_AbortInPrefetchTearsDown ==
    [][\A a \in Ids : Aborts(a, "prefetch") =>
          /\ Count(out', "dispose") = 1
          /\ videoManager' = 0 /\ stateManager' = 0 /\ avatarConfig' = NoConfig
          /\ ~isInitialized' /\ ~isInitializing'
          /\ Count(out', "onError") = 0
          /\ Count(out', "onLoadingChange(false)") = 1]_vars

\* C12: an aborted setup never surfaces an error: once endCall() has
\* aborted an invocation whose load, prefetch or agent start had not yet
\* settled, no continuation of that invocation emits onError, whatever the
\* video element or the agent reports after the abort.
C12_AbortNeverSurfaces ==
    [][\A a \in Ids : undecided[a] /\ Continues(a) => Count(out', "onError") = 0]_vars

\* C13: when the start of the voice agent has failed, the setup that
\* awaited it fails: the controller does not become initialized, no event
\* manager is subscribed, onAgentStart is not emitted, and onError is.
C13_AgentFailureFailsSetup ==
    [][\A a \in Ids :
          did' = Did("afterStartAgent", a) /\ ~aborted[a] /\ agent[a] = "failed" =>
             /\ ~isInitialized'
             /\ Count(out', "subscribe") = 0
             /\ Count(out', "onAgentStart") = 0
             /\ Count(out', "onError") = 1]_vars

\* the step runs the try block of startCall with an avatar name that no key
\* of the table equals, in whichever case it is written
LooksUpUnknown ==
    \E i \in DOMAIN out' : out'[i].op = "lookup" /\ out'[i].name.key \notin TableKeys

\* the entries of a step's output that are the given op, in order
Where(seq, op) == {i \in DOMAIN seq : seq[i].op = op}

\* C14: a start with an avatar name that is not in the table ends in an
\* error: the promise startCall returned is rejected, no player is made, no
\* load is issued, the agent is not started, onError is emitted exactly once
\* and onLoadingChange(true) is followed by onLoadingChange(false).
C14_UnknownAvatarRejects ==
    [][LooksUpUnknown =>
          /\ Count(out', "startCallRejected") = 1
          /\ Count(out', "startCallFulfilled") = 0
          /\ Count(out', "newPlayer") = 0
          /\ Count(out', "load") = 0
          /\ Count(out', "agentStart") = 0
          /\ Count(out', "onError") = 1
          /\ \E i \in Where(out', "onLoadingChange(true)"), j \in Where(out', "onLoadingChange(false)") :
                i < j]_vars

\* event manager e holds the player and the session state it was made with
Wired(e) == em[e].made /\ em[e].videoManager # 0 /\ em[e].stateManager # 0

\* the entries of a step's output that are the given op issued by event
\* manager e
OpsBy(seq, op, e) == {i \in DOMAIN seq : seq[i].op = op /\ seq[i].by = e}

\* C15: when the agent of an active session emits "error", the controller
\* emits onError, the status becomes idle and the player is paused.
C15_AgentErrorSurfaced ==
    [][\A g \in Ids :
          /\ did' = Did("error", g)
          /\ ActiveSession /\ Wired(eventManager)
          /\ agentSubs[g] = <<eventManager>>
          => /\ Count(out', "onError") = 1
             /\ sm'[em[eventManager].stateManager].agentStatus = "idle"
             /\ Cardinality(OpsBy(out', "pause", eventManager)) = 1]_vars

\* the flags and references of the controller that tell its lifecycle
lifecycle ==
    <<isInitialized, isInitializing, isCallActive, isCleaningUp, cleanupPromise,
      teardown, eventManager, videoManager, stateManager, avatarConfig, agentStarted>>

\* the step is the agent's event ev reaching the event managers subscribed
\* to it, every one of which is wired
IdleEventReaches(e) ==
    \E g \in Ids :
       /\ did' \in {Did("callEnded", g), Did("error", g)}
       /\ e \in Range(agentSubs[g])
       /\ \A x \in Range(agentSubs[g]) : Wired(x)

\* C16: on the agent's callEnded or error, whatever the status and the
\* selection are, the status becomes idle and the event manager sends one
\* pause to its player; its selected section and the copy in the session
\* state stay as they were, it issues no playRange, and the controller's
\* lifecycle is untouched (nothing is torn down).
C16_IdleEventPausesOnly ==
    [][\A e \in Ids : IdleEventReaches(e) =>
          /\ sm'[em[e].stateManager].agentStatus = "idle"
          /\ \E i \in DOMAIN out' :
                OpsBy(out', "pause", e) = {i} /\ out'[i].id = em[e].videoManager
          /\ ~vm'[em[e].videoManager].playing
          /\ PlaysBy(out', e) = {}
          /\ em'[e].currentSection = em[e].currentSection
          /\ sm'[em[e].stateManager].currentSection = sm[em[e].stateManager].currentSection
          /\ UNCHANGED lifecycle
          /\ Count(out', "dispose") + Count(out', "unsubscribe") + Count(out', "agentEnd") = 0
          /\ agentSubs' = agentSubs]_vars

C16_Witness ==
    /\ did.op \in {"callEnded", "error"}
    /\ \E e \in Range(agentSubs[did.id]) :
          /\ Wired(e)
          /\ OpsBy(out, "pause", e) # {}
          /\ em[e].currentSection.type = "speaking"
          /\ sm[em[e].stateManager].currentSection = em[e].currentSection
          /\ sm[em[e].stateManager].agentStatus = "idle"
          /\ isInitialized /\ eventManager = e

\* the step makes wired event manager e select and play from the list of
\* the given type: a status event of that type reaches it, or a range of its
\* player has finished while the status is that type and its selection is
\* of the other type
SelectReaches(e, type) ==
    \/ \E g \in Ids, ev \in StatusEvents :
          /\ did' = Did(ev, g) /\ EventType(ev) = type
          /\ e \in Range(agentSubs[g])
          /\ \A x \in Range(agentSubs[g]) : Wired(x)
    \/ \E v \in Ids :
          /\ did' = Did("timeupdate", v) /\ EndedType(e) = type
          /\ e \in Range(vm[v].subs)
          /\ \A x \in Range(vm[v].subs) : Wired(x)

\* the subscriptions of event manager e
SubscriptionsOf(e) ==
    <<{g \in Ids : e \in Range(agentSubs[g])}, {v \in Ids : e \in Range(vm[v].subs)}>>

\* C17: when an event manager is to select and play from a list of the
\* profile that is empty, it sends one pause to its player and no playRange,
\* its selected section stays as it was, no onError is emitted, the
\* controller's lifecycle is untouched and the event manager stays
\* subscribed to the agent and the player.
C17_EmptyListPauses ==
    [][\A e \in Ids, type \in SectionTypes :
          /\ SelectReaches(e, type)
          /\ Len(SectionsOf(em[e].avatarConfig, type)) = 0
          => /\ \E i \in DOMAIN out' :
                   OpsBy(out', "pause", e) = {i} /\ out'[i].id = em[e].videoManager
             /\ ~vm'[em[e].videoManager].playing
             /\ PlaysBy(out', e) = {}
             /\ em'[e].currentSection = em[e].currentSection
             /\ sm'[em[e].stateManager].currentSection = sm[em[e].stateManager].currentSection
             /\ Count(out', "onError") = 0
             /\ UNCHANGED lifecycle
             /\ SubscriptionsOf(e)' = SubscriptionsOf(e)]_vars

C17_Witness ==
    /\ did.op = "speaking"
    /\ \E e \in Range(agentSubs[did.id]) :
          /\ Wired(e) /\ isInitialized /\ eventManager = e
          /\ Len(em[e].avatarConfig.speakingSections) = 0
          /\ OpsBy(out, "pause", e) # {}
          /\ em[e].currentSection.type = "listening"
          /\ sm[em[e].stateManager].agentStatus = "speaking"

\* an active session that is the only thing the controller has going: no
\* startCall is suspended, its event manager is the only one subscribed, to
\* its agent and to its player, which the container shows, and the stream
\* handlers are registered once, on its agent
SoleSession ==
    /\ ActiveSession /\ Wired(eventManager) /\ Suspended = {}
    /\ em[eventManager].videoManager = videoManager /\ container = videoManager
    /\ Subscribed = {eventManager}
    /\ voiceAgent # 0 /\ agent[voiceAgent] = "started"
    /\ agentSubs[voiceAgent] = <<eventManager>>
    /\ vm[videoManager].subs = <<eventManager>>
    /\ mediaSubs = [g \in Ids |-> IF g = voiceAgent THEN 1 ELSE 0]

\* nothing is subscribed, in flight or held: no event manager listens to an
\* agent or a player, the stream handlers are registered nowhere, the
\* controller holds no event manager and no player, no watch is armed
Quiet ==
    /\ Suspended = {} /\ Subscribed = {}
    /\ \A g \in Ids : mediaSubs[g] = 0
    /\ eventManager = 0 /\ videoManager = 0 /\ container = 0
    /\ \A v \in Ids : ~vm[v].armed /\ ~vm[v].playing

\* the play, pause and resume commands among a step's output
Commands(seq) == {i \in DOMAIN seq : seq[i].op \in {"playRange", "pause", "resume"}}

\* the step is an event of an agent or the end of a range
EventStep == did'.op \in AgentEvents \cup {"timeupdate", "remote", "local"}

\* C18: the endCall() of an active session unsubscribes its event manager
\* from the agent and the player, disposes the player and ends the agent;
\* when it completes, eventManager, videoManager, stateManager, avatarConfig
\* and the two audio streams are cleared, the controller is neither
\* initialized nor call-active, and onAgentEnd has been emitted exactly once;
\* from its first step until the next start, no event of an agent and no
\* end of a range leads to a play, pause or resume command.
C18_EndCallClearsSession ==
    [][/\ did'.op = "endCall" /\ SoleSession /\ ~isCleaningUp =>
             /\ Count(out', "unsubscribe") = 1
             /\ Count(out', "dispose") = 1
             /\ Count(out', "agentEnd") = 1
             /\ Count(out', "onAgentEnd") = 0
             /\ agent'[voiceAgent] = "ended" /\ ~agentStarted'
             /\ teardown' /\ Quiet'
       /\ teardown /\ Quiet /\ did'.op # "afterEndAgent" =>
             /\ teardown' /\ Quiet'
             /\ Count(out', "onAgentEnd") = 0
             /\ EventStep => Commands(out') = {} /\ out' = <<>>
       /\ teardown /\ Quiet /\ did'.op = "afterEndAgent" =>
             /\ Count(out', "onAgentEnd") = 1
             /\ stateManager' = 0 /\ avatarConfig' = NoConfig
             /\ ~remoteAudioStream' /\ ~localAudioStream'
             /\ ~isInitialized' /\ ~isCallActive' /\ ~isInitializing'
             /\ ~isCleaningUp' /\ ~teardown' /\ Quiet'
       /\ ~teardown /\ ~isInitialized /\ ~isInitializing /\ Quiet /\ did'.op # "initialize" =>
             /\ ~teardown' /\ ~isInitialized' /\ ~isInitializing' /\ Quiet'
             /\ stateManager' = stateManager /\ avatarConfig' = avatarConfig
             /\ ~remoteAudioStream' /\ ~localAudioStream'
             /\ Count(out', "onAgentEnd") = 0
             /\ EventStep => Commands(out') = {} /\ out' = <<>>]_vars

C18_Witness ==
    /\ did.op = "callEnded" /\ agent[did.id] = "ended" /\ voiceAgent = did.id
    /\ out = <<>>
    /\ ~teardown /\ ~isInitialized /\ ~isInitializing /\ ~isCallActive /\ Quiet
    /\ stateManager = 0 /\ avatarConfig = NoConfig
    /\ ~remoteAudioStream /\ ~localAudioStream

\* a step's output is exactly the given ops on the given objects, in order
Issues(seq, ops, ids) ==
    /\ Len(seq) = Len(ops)
    /\ \A i \in DOMAIN seq : seq[i].op = ops[i] /\ seq[i].id = ids[i] /\ seq[i].by = 0

\* what pause() and resume() must leave alone: the selected section in both
\* copies, the watch and the range of every player, the subscriptions
selection ==
    <<[s \in Ids |-> sm[s].currentSection], [e \in Ids |-> em[e].currentSection],
      [v \in Ids |-> <<vm[v].armed, vm[v].currentSection, vm[v].atEnd, vm[v].subs>>],
      agentSubs, mediaSubs, voiceAgent, agent, container, pc, settled>>

\* the step is the controller's call op, which sets the status and forwards
\* the command cmd to the player and agentCmd to the voice agent
Forwards(op, status, cmd, agentCmd) ==
    did'.op = op =>
       /\ UNCHANGED <<lifecycle, selection>>
       /\ stateManager # 0 => sm'[stateManager].agentStatus = status
       /\ ActiveSession /\ stateManager # 0 =>
             Issues(out', <<cmd, agentCmd>>, <<videoManager, voiceAgent>>)
       /\ stateManager = 0 /\ videoManager = 0 =>
             /\ UNCHANGED <<sm, vm>>
             /\ IF voiceAgent = 0 THEN out' = <<>>
                ELSE Issues(out', <<agentCmd>>, <<voiceAgent>>)

\* C20: in an active session pause() sets the status to idle and sends one
\* pause to the player and one to the voice agent, and resume() sets it to
\* listening and sends one resume to each; neither changes the selected
\* section, the armed watch or a lifecycle flag; with no session state and
\* no player they do nothing but forward to the voice agent.
C20_PauseResumeForward ==
    [][/\ Forwards("pause", "idle", "pause", "agentPause")
       /\ Forwards("resume", "listening", "resume", "agentResume")]_vars

C20_Witness ==
    /\ did.op = "resume" /\ ActiveSession /\ stateManager # 0
    /\ Issues(out, <<"resume", "agentResume">>, <<videoManager, voiceAgent>>)
    /\ sm[stateManager].agentStatus = "listening"
    /\ sm[stateManager].currentSection.type = "speaking"
    /\ vm[videoManager].armed /\ vm[videoManager].playing

\* C19: getInstance() returns the one existing instance until
\* resetInstance(), and makes a new one (a new object, never started) only
\* when there is none; resetInstance() ends any active or initializing
\* session of the instance: either a teardown is in flight when its
\* endCall() returns, or the promise of endCall() is settled and then no
\* invocation of startCall is left waiting for a load, a prefetch or an
\* agent start and no agent is starting or started; when resetInstance()
\* completes, the consumer listeners are removed and the shared instance
\* is cleared.
C19_ResetEndsSession ==
    [][/\ did'.op = "getInstance" =>
             /\ instance # 0 => instance' = instance /\ made' = made
             /\ instance = 0 => instance' = made + 1 /\ made' = made + 1
             /\ out' = <<Ev("getInstance", instance')>>
       /\ did'.op = "resetInstance" /\ instance = 1 =>
             \/ teardown' /\ resetting'.waiting = resetting.waiting + 1
             \/ /\ resetting'.ready = resetting.ready + 1
                /\ \A a \in Suspended' : settled'[a] # "pending"
                /\ \A g \in Ids : agent'[g] \notin {"starting", "started"}
       /\ did'.op = "afterResetAwait" /\ instance = 1 =>
             instance' = 0 /\ listeners' = NoListeners]_vars

\* the controller accepts a start: it is neither initialized nor
\* initializing and its call-active guard is false
Retryable == ~isInitialized /\ ~isInitializing /\ ~isCallActive

\* the step is the continuation of invocation a finding that its load or
\* its prefetch has failed; a was not aborted
Fails(a) ==
    /\ ~aborted[a]
    /\ did' \in {Did("afterSetupVideo", a), Did("afterPrefetchVideo", a)}
    /\ settled[a] = "err"

\* C21: retry stays possible.  A start attempt that fails (unknown avatar,
\* load or prefetch error) or that endCall() aborts leaves the controller
\* not initialized, not initializing and not call-active; as long as no
\* further initialize() was accepted, the failed or aborted attempt issues
\* no load and no agent start and the controller stays that way; and the
\* next initialize() is accepted and begins a new setup.
C21_RetryStaysPossible ==
    [][/\ \A a \in Ids :
             (\E at \in {"load", "prefetch", "agent"} : Aborts(a, at)) => Retryable'
       /\ LooksUpUnknown => Retryable'
       /\ \A a \in Ids : Fails(a) /\ nextId = a + 1 => Retryable'
       /\ \A a \in Ids : aborted[a] /\ nextId = a + 1 /\ Continues(a) =>
             /\ Retryable'
             /\ Count(out', "load") = 0
             /\ Count(out', "agentStart") = 0
       /\ Retryable /\ did'.op = "initialize" =>
             nextId' = nextId + 1 /\ Count(out', "onLoadingChange(true)") = 1]_vars

\* the step takes invocation a into the setup: it is accepted, finds its
\* profile and issues the load
Begins(a) == pc[a] \in {"unused", "awaitCleanup"} /\ pc'[a] = "load"

\* the controller is active and event manager e, the controller's, is
\* subscribed to the controller's agent and to the controller's player
ActiveAndSubscribed(e) ==
    /\ isInitialized /\ ~isInitializing /\ isCallActive
    /\ eventManager = e /\ Wired(e)
    /\ voiceAgent # 0 /\ e \in Range(agentSubs[voiceAgent])
    /\ videoManager # 0 /\ e \in Range(vm[videoManager].subs)

\* C22: the notifications of an accepted start that succeeds come in the
\* order onLoadingChange(true), onLoadingChange(false), onAgentStart: the
\* step that begins the setup emits onLoadingChange(true) and no
\* onAgentStart; no step emits onAgentStart but the continuation of a
\* start after its agent start, which emits onLoadingChange(false) and then
\* onAgentStart, once each, ends that start (so it emits no more), and
\* leaves the controller active with its event manager subscribed to the
\* agent and to the player.
C22_NotificationOrder ==
    [][/\ \A a \in Ids : Begins(a) =>
             /\ Count(out', "onLoadingChange(true)") = 1
             /\ Count(out', "onLoadingChange(false)") = 0
       /\ Count(out', "onAgentStart") > 0 =>
             \E a \in Ids :
                /\ did' = Did("afterStartAgent", a)
                /\ pc[a] = "agent" /\ pc'[a] = "done"
                /\ Count(out', "onLoadingChange(true)") = 0
                /\ \E i, j \in DOMAIN out' :
                      /\ Where(out', "onLoadingChange(false)") = {i}
                      /\ Where(out', "onAgentStart") = {j}
                      /\ i < j
                /\ Where(out', "subscribe") # {}
                /\ \A s \in Where(out', "subscribe"), j \in Where(out', "onAgentStart") : s < j
                /\ ActiveAndSubscribed(a)'
       /\ \A a \in Ids : pc[a] = "done" => pc'[a] \in {"done", "unused"}]_vars

C22_Witness ==
    /\ did.op = "afterStartAgent" /\ pc[did.id] = "done"
    /\ ActiveAndSubscribed(did.id)
    /\ listeners.id = did.id
    /\ \E i \in DOMAIN out :
          /\ out[i].op = "onLoadingChange(false)"
          /\ i + 1 \in DOMAIN out /\ out[i + 1].op = "onAgentStart"

\* a selected section is null, or of a type and at a position that the
\* profile has
InBounds(cur, cfg) ==
    \/ cur = NoSection
    \/ /\ cur.type \in SectionTypes /\ cfg # NoConfig
       /\ 0 <= cur.index /\ cur.index < Len(SectionsOf(cfg, cur.type))

\* C23: in every state of an active session the selected section held by
\* the session state is null or its index is a position of the list of its
\* type in the controller's profile; the same holds of every event manager's
\* own copy and of the session state it writes, against the profile it was
\* made with.
C23_SelectionInBounds ==
    /\ isInitialized /\ stateManager # 0 =>
          InBounds(sm[stateManager].currentSection, avatarConfig)
    /\ \A e \in Ids : em[e].made /\ em[e].stateManager # 0 =>
          /\ InBounds(em[e].currentSection, em[e].avatarConfig)
          /\ InBounds(sm[em[e].stateManager].currentSection, em[e].avatarConfig)

C23_Witness ==
    /\ ActiveSession /\ stateManager # 0
    /\ did.op = "timeupdate"
    /\ LET cur == sm[stateManager].currentSection IN
       /\ cur # NoSection
       /\ cur.index = MaxSections - 1
       /\ cur.index = Len(SectionsOf(avatarConfig, cur.type)) - 1

\* the playRange entries of a step's output that are sent to player v
PlaysOn(seq, v) == {i \in DOMAIN seq : seq[i].op = "playRange" /\ seq[i].id = v}

\* the step is the range-finished notification of player v
Finished(v) == did' = Did("timeupdate", v)

\* at most one notification for a playRange, and none for a superseded
\* range: player v notifies only when its watch is armed and the position
\* has reached the end of its current range; the notification disarms the
\* watch, and only a playRange arms it; a playRange makes its range the
\* current one, with the position before its end
OneNotificationPerWatch(v) ==
    /\ Finished(v) => vm[v].armed /\ vm[v].atEnd /\ vm[v].currentSection # NoRange
    /\ PlaysOn(out', v) = {} =>
          /\ vm'[v].armed => vm[v].armed /\ ~Finished(v)
          /\ vm'[v].made => vm'[v].currentSection = vm[v].currentSection
    /\ \A i \in PlaysOn(out', v) :
          (\A j \in PlaysOn(out', v) : j <= i) =>
             /\ vm'[v].armed /\ ~vm'[v].atEnd
             /\ vm'[v].currentSection = out'[i].range

Released(v) == ~vm[v].playing /\ ~vm[v].armed /\ container # v

\* C25: VideoManager.cleanup() stops playback, disarms the armed watch and
\* releases the display binding in every case, also when the container is
\* missing or no longer holds the video element; on a player that is
\* already released it changes nothing.
C25_DisposeReleases ==
    [][\A v \in Ids : did' = Did("playerDispose", v) =>
          /\ Released(v)'
          /\ Released(v) => vm' = vm /\ container' = container]_vars

\* C26 as claimed: when a range has finished and the status differs from
\* the type of the event manager's selected section, the status of that
\* moment alone decides: if it is idle the player is paused and the
\* selected section stays; if it is speaking or listening, a section of
\* that type is selected and played, whatever the lists of the profile hold.
C26_FinishedSelectsByStatus ==
    [][\A v \in Ids, e \in Ids :
          /\ did' = Did("timeupdate", v) /\ e \in Range(vm[v].subs)
          /\ \A x \in Range(vm[v].subs) : Wired(x)
          /\ EndedType(e) # "none"
          => LET s == em[e].stateManager
                 cfg == em[e].avatarConfig
                 status == sm[s].agentStatus
             IN  /\ sm'[s].agentStatus = status
                 /\ IF status = "idle"
                    THEN /\ Cardinality(OpsBy(out', "pause", e)) = 1
                         /\ PlaysBy(out', e) = {}
                         /\ em'[e].currentSection = em[e].currentSection
                         /\ sm'[s].currentSection = sm[s].currentSection
                    ELSE /\ Selected(sm'[s], cfg, status)
                         /\ Selected([sm'[s] EXCEPT !.currentSection = em'[e].currentSection],
                                     cfg, status)
                         /\ \E i \in DOMAIN out' :
                               /\ PlaysBy(out', e) = {i}
                               /\ out'[i].range =
                                     SectionsOf(cfg, status)[em'[e].currentSection.index + 1]]_vars

\* C26 amended: when a range has finished and the status differs from the
\* type of the event manager's selected section, the status of that moment
\* alone decides: if it is idle, or if it is speaking or listening and the
\* profile's list of that type is empty, the player is paused, nothing is
\* played and the selected section stays; otherwise a section of exactly
\* that type is selected, at a position of its list, and its range is
\* played.  The status itself is not changed.
C26_FinishedSelectsFromList ==
    [][\A v \in Ids, e \in Ids :
          /\ did' = Did("timeupdate", v) /\ e \in Range(vm[v].subs)
          /\ \A x \in Range(vm[v].subs) : Wired(x)
          /\ EndedType(e) # "none"
          => LET s == em[e].stateManager
                 cfg == em[e].avatarConfig
                 status == sm[s].agentStatus
             IN  /\ sm'[s].agentStatus = status
                 /\ IF status = "idle" \/ Len(SectionsOf(cfg, status)) = 0
                    THEN /\ Cardinality(OpsBy(out', "pause", e)) = 1
                         /\ PlaysBy(out', e) = {}
                         /\ em'[e].currentSection = em[e].currentSection
                         /\ vm[v].subs = <<e>> =>
                               sm'[s].currentSection = sm[s].currentSection
                    ELSE /\ Selected(sm'[s], cfg, status)
                         /\ Selected([sm'[s] EXCEPT !.currentSection = em'[e].currentSection],
                                     cfg, status)
                         /\ \E i \in DOMAIN out' :
                               /\ PlaysBy(out', e) = {i}
                               /\ out'[i].range =
                                     SectionsOf(cfg, status)[em'[e].currentSection.index + 1]]_vars

C26_Witness ==
    /\ did.op = "timeupdate"
    /\ \E e \in Range(vm[did.id].subs) :
          /\ Wired(e) /\ eventManager = e
          /\ sm[em[e].stateManager].agentStatus = "listening"
          /\ em[e].currentSection.type = "listening"
          /\ \E i \in DOMAIN out :
                /\ out[i] = [Ev("Selecting a new section", e) EXCEPT !.by = e]
                /\ i + 1 \in PlaysBy(out, e)
                /\ out[i + 1].range \in Range(em[e].avatarConfig.listeningSections)

\* C27: when a range has finished and the event manager has no section
\* selected, the event manager does nothing: it sends no play and no pause
\* command, and the status and the selected section stay as they were; the
\* player is left as its own end of range left it, stopped and with no
\* watch armed.
C27_NullSelectionNoOp ==
    [][\A v \in Ids, e \in Ids :
          /\ did' = Did("timeupdate", v) /\ e \in Range(vm[v].subs)
          /\ em[e].made /\ em[e].currentSection = NoSection
          => /\ {i \in DOMAIN out' : out'[i].by = e} = {}
             /\ em'[e] = em[e]
             /\ vm[v].subs = <<e>> =>
                   /\ out' = <<>>
                   /\ sm' = sm
                   /\ ~vm'[v].armed /\ ~vm'[v].playing
                   /\ vm'[v].currentSection = vm[v].currentSection]_vars

C27_Witness ==
    /\ did.op = "timeupdate" /\ out = <<>>
    /\ isInitialized /\ eventManager # 0 /\ stateManager # 0
    /\ vm[did.id].subs = <<eventManager>>
    /\ em[eventManager].currentSection = NoSection
    /\ sm[stateManager] = NewState
    /\ vm[did.id].currentSection # NoRange /\ vm[did.id].atEnd

\* C28: a callStarted, speaking or listening event that reaches a wired
\* event manager whose list of the event's type is not empty sets the
\* status to that type, records a selected section of that type at a
\* position of the list, and makes the event manager issue exactly one
\* playRange, to its player, of the entry of the list at the recorded
\* position; and for the sole event manager of a started agent every
\* position of the list is one the event can record.
C28_StatusEventSelectsAndPlays ==
    /\ [][\A e \in Ids, ev \in StatusEvents :
             /\ StatusEventReaches(ev, e)
             /\ \A g \in Ids : did' = Did(ev, g) => \A x \in Range(agentSubs[g]) : Wired(x)
             /\ Len(SectionsOf(em[e].avatarConfig, EventType(ev))) > 0
             => LET s == em[e].stateManager
                    sections == SectionsOf(em[e].avatarConfig, EventType(ev))
                    cur == em'[e].currentSection
                IN  /\ sm'[s].agentStatus = EventType(ev)
                    /\ cur.type = EventType(ev)
                    /\ cur.index + 1 \in DOMAIN sections
                    /\ sm'[s].currentSection.type = EventType(ev)
                    /\ sm'[s].currentSection.index + 1 \in DOMAIN sections
                    /\ (\A g \in Ids : did' = Did(ev, g) => agentSubs[g] = <<e>>) =>
                          sm'[s].currentSection = cur
                    /\ \E i \in DOMAIN out' :
                          /\ PlaysBy(out', e) = {i}
                          /\ out'[i].id = em[e].videoManager
                          /\ out'[i].range = sections[cur.index + 1]]_vars
    /\ [](\A g \in Ids, e \in Ids, ev \in StatusEvents :
             agent[g] = "started" /\ agentSubs[g] = <<e>> /\ Wired(e) =>
                \A p \in DOMAIN SectionsOf(em[e].avatarConfig, EventType(ev)) :
                   \E draw \in Draws(agentSubs[g], [x \in Ids |-> EventType(ev)]) :
                      EmitAgentEvent(World, agentSubs[g], ev, draw).em[e].currentSection.index = p - 1)

C28_Witness ==
    /\ did.op = "callStarted"
    /\ \E e \in Range(agentSubs[did.id]) :
          /\ Wired(e) /\ eventManager = e /\ isInitialized
          /\ sm[em[e].stateManager].agentStatus = "listening"
          /\ em[e].currentSection = [type |-> "listening", index |-> MaxSections - 1]
          /\ sm[em[e].stateManager].currentSection = em[e].currentSection
          /\ \E i \in DOMAIN out :
                /\ PlaysBy(out, e) = {i}
                /\ out[i].range = em[e].avatarConfig.listeningSections[MaxSections]

\* C29: a section player holds one end-of-range watch, which playRange,
\* the range-finished notification and dispose arm and disarm and pause
\* and resume leave alone: a step that issues a playRange to the player
\* leaves the watch armed; the notification disarms the watch before the
\* sectionEnded listeners run, so that afterwards the watch is armed
\* exactly when a listener has issued a playRange; dispose never arms the
\* watch, and disarms it when the container holds the element; every
\* other step leaves the watch as it is.
C29_OneWatch ==
    [][\A v \in Ids : vm[v].made /\ vm'[v].made =>
          LET plays == PlaysOn(out', v)
              disposes == {i \in DOMAIN out' : out'[i].op = "dispose" /\ out'[i].id = v}
          IN  /\ plays # {} => vm'[v].armed
              /\ Finished(v) => vm[v].armed /\ (vm'[v].armed <=> plays # {})
              /\ did'.op \in {"pause", "resume"} => vm'[v].armed = vm[v].armed
              /\ disposes # {} /\ plays = {} =>
                    /\ vm'[v].armed => vm[v].armed
                    /\ container = v => ~vm'[v].armed
              /\ plays = {} /\ disposes = {} /\ ~Finished(v) =>
                    vm'[v].armed = vm[v].armed]_vars

C29_Witness ==
    /\ did.op = "timeupdate"
    /\ vm[did.id].armed /\ vm[did.id].playing /\ ~vm[did.id].atEnd
    /\ \E e \in Range(vm[did.id].subs), i \in DOMAIN out :
          /\ PlaysBy(out, e) = {i} /\ PlaysOn(out, did.id) = {i}
          /\ em[e].currentSection # NoSection
          /\ out[i].range = SectionsOf(em[e].avatarConfig, em[e].currentSection.type)[em[e].currentSection.index + 1]

\* the status that agent event ev writes
EventStatus(ev) == IF ev \in StatusEvents THEN EventType(ev) ELSE "idle"

\* the step is an agent event handled by an event manager that writes to
\* session state s
WrittenByEvent(s) ==
    \E g \in Ids, ev \in AgentEvents, e \in Ids :
       /\ did' = Did(ev, g)
       /\ e \in Range(agentSubs[g]) /\ em[e].stateManager = s
       /\ sm'[s].agentStatus = EventStatus(ev)

\* session state s is in use after the step and the step has changed its
\* status
StatusChanges(s) ==
    /\ s = stateManager' \/ \E e \in Ids : em'[e].made /\ em'[e].stateManager = s
    /\ sm'[s].agentStatus # sm[s].agentStatus

\* C30 as claimed: the status of a session state is changed only by an
\* event manager handling an agent event; no other operation changes it.
C30_OnlyEventsWriteStatus ==
    [][\A s \in Ids : StatusChanges(s) => WrittenByEvent(s)]_vars

\* C30 amended: the status of a session state is changed only by an event
\* manager handling an agent event, to the status of that event, and by
\* the controller's pause(), to idle, and resume(), to listening, on its
\* current session state; no other operation changes it.
C30_EventsPauseResumeWriteStatus ==
    [][\A s \in Ids : StatusChanges(s) =>
          \/ WrittenByEvent(s)
          \/ did'.op = "pause" /\ s = stateManager /\ sm'[s].agentStatus = "idle"
          \/ did'.op = "resume" /\ s = stateManager /\ sm'[s].agentStatus = "listening"]_vars

C30_Witness ==
    /\ did.op = "pause" /\ ActiveSession /\ stateManager # 0
    /\ sm[stateManager].agentStatus = "idle"
    /\ sm[stateManager].currentSection.type = "speaking"
    /\ vm[videoManager].armed /\ ~vm[videoManager].playing
    /\ Count(out, "pause") = 1

\* C31: while an invocation of startCall is suspended at the media load,
\* the prefetch or the agent start, isInitializing and isCallActive are
\* both true (so that endCall() takes the abort branch and initialize() is
\* ignored), under every interleaving of initialize(), endCall() and the
\* continuations.
C31_SuspendedSetupFlags ==
    \A a \in Ids : pc[a] \in {"load", "prefetch", "agent"} =>
       isInitializing /\ isCallActive

\* C32: under any interleaving of resetInstance() calls with each other
\* and with getInstance(), a resetInstance() that resumes after its await
\* finds the instance it called endCall() on: it does not dereference a
\* cleared (null) instance, and it does not remove the listeners of, or
\* clear, an instance that getInstance() made while it was waiting.
C32_ResetClearsOwnInstance ==
    [][\A i \in 1..MaxInstances : did' = Did("afterResetAwait", i) =>
          /\ instance = i
          /\ Count(out', "resetInstanceRejected") = 0
          /\ instance' = 0]_vars

\* C33: at any time at most one voice agent is starting or started and
\* not ended, and it is the agent the voice agent manager holds, which is
\* the one a later endCall() ends; under any interleaving of initialize(),
\* endCall() and the completions of agent starts.
C33_OneAgent ==
    /\ Cardinality({g \in Ids : agent[g] \in {"starting", "started"}}) <= 1
    /\ \A g \in Ids : agent[g] \in {"starting", "started"} => voiceAgent = g

\* C34: after the controller's pause() and until its next resume(), the
\* player it has paused is not commanded to play: no step but resume()
\* issues a playRange or a resume to it, whatever the agent emits.
C34_PausedStaysPaused ==
    [][\A v \in Ids : vm[v].held /\ did'.op # "resume" =>
          /\ PlaysOn(out', v) = {}
          /\ \A i \in DOMAIN out' : ~(out'[i].op = "resume" /\ out'[i].id = v)]_vars

\* the loading notifications of seq, in order, find n unmatched
\* onLoadingChange(true): no onLoadingChange(false) comes without one
RECURSIVE Paired(_, _)
Paired(seq, n) ==
    IF seq = <<>> THEN TRUE
    ELSE CASE Head(seq).op = "onLoadingChange(true)" -> Paired(Tail(seq), n + 1)
           [] Head(seq).op = "onLoadingChange(false)" -> n > 0 /\ Paired(Tail(seq), n - 1)
           [] OTHER -> Paired(Tail(seq), n)

\* C35: loading notifications are paired.  A step emits
\* onLoadingChange(true) once when it takes a start into the setup (it
\* looks up the profile) and never otherwise; onLoadingChange(false) is
\* emitted only when an onLoadingChange(true) is unmatched, so at most once
\* for each start, on success, failure and abort alike; and when no setup
\* is suspended any more, none is unmatched.
C35_LoadingPaired ==
    [][/\ Count(out', "onLoadingChange(true)") = Count(out', "lookup")
       /\ Count(out', "lookup") <= 1
       /\ Paired(out', loading)
       /\ (\A a \in Ids : pc'[a] \notin {"load", "prefetch", "agent"}) => loading' = 0]_vars

\* C36: in a fair environment every start that has entered the setup
\* eventually completes and the controller eventually is not initializing
\* (it is then active or not initialized); every onLoadingChange(true) is
\* eventually followed by an onLoadingChange(false); and every endCall()
\* eventually completes, with isCleaningUp false.
C36_SetupAndTeardownEnd ==
    /\ \A a \in Ids : (pc[a] \in {"load", "prefetch", "agent"}) ~> (pc[a] = "done")
    /\ isInitializing ~> ~isInitializing
    /\ (loading > 0) ~> (loading = 0)
    /\ isCleaningUp ~> (~isCleaningUp /\ ~teardown)

C36_Witness ==
    /\ did.op = "afterEndAgent"
    /\ ~isCleaningUp /\ ~teardown /\ ~isInitializing /\ ~isInitialized
    /\ loading = 0
    /\ \E a \in Ids : pc[a] = "done"
    /\ \A a \in Ids : pc[a] \in {"unused", "done"}

\* C37: in every state of an active session the event manager's own
\* currentSection equals the selected section held in the session state.
C37_CopiesAgree ==
    ActiveSession /\ stateManager # 0 =>
       em[eventManager].currentSection = sm[stateManager].currentSection

\* C38: the "section not found" branch of the loop case is never taken:
\* the section an event manager has selected is always at a position of its
\* profile's list of that type, and when a range has finished and the status
\* equals the type of the selected section, the event manager replays the
\* entry of the list at the selected position, once, and sends no pause.
C38_LoopAlwaysReplays ==
    /\ [](\A e \in Ids :
             em[e].made /\ em[e].avatarConfig # NoConfig /\ em[e].currentSection # NoSection =>
                em[e].currentSection.index + 1 \in
                   DOMAIN SectionsOf(em[e].avatarConfig, em[e].currentSection.type))
    /\ [][\A v \in Ids, e \in Ids :
             /\ did' = Did("timeupdate", v) /\ e \in Range(vm[v].subs)
             /\ \A x \in Range(vm[v].subs) : Wired(x)
             /\ em[e].currentSection # NoSection
             /\ sm[em[e].stateManager].agentStatus = em[e].currentSection.type
             => LET cur == em[e].currentSection
                    sections == SectionsOf(em[e].avatarConfig, cur.type)
                IN  /\ cur.index + 1 \in DOMAIN sections
                    /\ OpsBy(out', "pause", e) = {}
                    /\ em'[e].currentSection = cur
                    /\ \E i \in DOMAIN out' :
                          /\ PlaysBy(out', e) = {i}
                          /\ out'[i].id = em[e].videoManager
                          /\ out'[i].range = sections[cur.index + 1]]_vars

C38_Witness ==
    /\ did.op = "timeupdate"
    /\ \E e \in Range(vm[did.id].subs) :
          /\ Wired(e) /\ eventManager = e
          /\ em[e].currentSection = [type |-> "speaking", index |-> MaxSections - 1]
          /\ sm[em[e].stateManager].agentStatus = "speaking"
          /\ \E i \in DOMAIN out :
                /\ out[i] = [Ev("Looping the same section", e) EXCEPT !.by = e]
                /\ PlaysBy(out, e) = {i + 1}
                /\ out[i + 1].range = em[e].avatarConfig.speakingSections[MaxSections]
                /\ OpsBy(out, "pause", e) = {}

\* C39: cleanupPromise is non-null exactly while isCleaningUp is true; in
\* every state in which no endCall() is in progress, after the abort branch
\* as after the full teardown (one that fails before its first suspension
\* included), cleanupPromise is null.
C39_CleanupPromiseWhileCleaning ==
    /\ (cleanupPromise # "null") <=> isCleaningUp
    /\ ~teardown => cleanupPromise = "null"

====
